---- MODULE Spec2Model ----
(***************************************************************************)
(* A model of the conway dataset projection pipeline: the file store, the  *)
(* DataAccessor, the SingleRootDataHub operations, the DataFrame content   *)
(* filter and DataBaseProjector.project.                                   *)
(*                                                                         *)
(* Strings that the code slices or concatenates (urls, roots, relative     *)
(* paths) are sequences of one-character strings.  The file store maps the *)
(* url of every existing file to its content; a directory exists when a    *)
(* file lies under it.                                                     *)
(***************************************************************************)
EXTENDS Integers, Sequences, FiniteSets, TLC

VARIABLES
    fs,                             \* the file system: url -> file content
    \* ---- DataBaseProjector.project: inputs
    input_db,                       \* input_db.get_data_hubs()
    output_db,                      \* output_db.get_data_hubs()
    must_save,                      \* the subclass's must_save_even_if_empty
    \* ---- DataBaseProjector.project: position and locals
    pc,
    hub_pos,                        \* position of the outer loop (hub)
    item_pos,                       \* position of the inner loop
    source_keys,                    \* self.source_data_dict: keys in insertion order
    source_data_dict,               \* self.source_data_dict: key -> _DataSetInfo
    skipped_datasets,
    skipped_by_hub,
    all_dataset_rel_urls_s,
    nb_loaded,
    skipped_report,                 \* the urls listed in skipped_msg
    stats_input_relative_paths,
    stats_input_nb_rows,
    stats_input_nb_columns,
    stats_output_relative_paths,
    stats_output_nb_rows,
    stats_output_nb_columns,
    projected_keys,                 \* projected_data_dict: keys in insertion order
    projected_data_dict,
    nb_saved,
    persist_log,                    \* the calls of DataAccessor.persist, in order
    stats_df,                       \* the value project returns
    raised,                         \* the exception project raises
    \* ---- SingleRootDataHub operations
    hub_pc,                         \* position inside the hub operation
    hub_call,                       \* the operation and its arguments
    fs_before,                      \* the file system when the operation started
    hub_raised,                     \* the exception the operation raises
    nb_ops,                         \* the number of hub operations started
    \* ---- DataFrameDataSetContent objects
    contents,                       \* object i's data_df
    slice_def,                      \* the SliceDefinition the calls are given
    filter_calls,                   \* the calls of filter: receiver and result
    first_df,                       \* the DataFrame object 1 was created with
    \* ---- one DataAccessor and the call made on it
    accessor,                       \* the object: url, subpath, action (the ACTION attribute)
    acc_args,                       \* the arguments of the call: alternative_subpaths, fail_if_not_found
    acc_pc,                         \* "ready" before the call, "done" after it
    acc_result,                     \* what the call returned or raised
    nb_acc_actions,                 \* the actions run so far in the with block
    scope_outcome,                  \* what the with statement gave its caller
    \* ---- the samplers
    sampler,                        \* the sampler object
    raw_data_dict,                  \* the mapping given to generate_sample
    rng_state,                      \* the state of the random module's generator
    sample_calls,                   \* the calls of generate_sample and their results
    \* ---- the hub handles
    handles,                        \* the handle objects, in order of creation
    handle_calls,                   \* the calls of snapshot_handle
    \* ---- CommandParser
    command,                        \* the argument of get_argument_list
    machine                         \* the _StateMachine: token_list, token_idx, state, args

projInputs == <<input_db, output_db, must_save>>
projLoad   == <<source_keys, source_data_dict, skipped_datasets, skipped_by_hub,
                all_dataset_rel_urls_s, nb_loaded, skipped_report,
                stats_input_relative_paths, stats_input_nb_rows,
                stats_input_nb_columns>>
projProject == <<stats_output_relative_paths, stats_output_nb_rows,
                 stats_output_nb_columns, projected_keys, projected_data_dict>>
projSave   == <<nb_saved, persist_log>>
projVars   == <<projInputs, pc, hub_pos, item_pos, projLoad, projProject,
                projSave, stats_df, raised>>

hubVars    == <<hub_pc, hub_call, fs_before, hub_raised, nb_ops>>

contentVars == <<contents, slice_def, filter_calls, first_df>>

accVars == <<accessor, acc_args, acc_pc, acc_result, nb_acc_actions, scope_outcome>>

samplerVars == <<sampler, raw_data_dict, rng_state, sample_calls>>

handleVars == <<handles, handle_calls>>

parserVars == <<command, machine>>

vars == <<fs, projVars, hubVars, contentVars, accVars, samplerVars, handleVars,
         parserVars>>

\* what the steps of project leave alone
notProj == <<hubVars, contentVars, accVars, samplerVars, handleVars, parserVars>>

\* what the hub operations leave alone
notHub == <<projVars, contentVars, accVars, samplerVars, handleVars, parserVars>>

\* what the calls of filter leave alone
notContent == <<fs, projVars, hubVars, accVars, samplerVars, handleVars, parserVars>>

\* what the calls on the accessor leave alone
notAcc == <<projVars, hubVars, contentVars, samplerVars, handleVars, parserVars>>

\* what the samplers leave alone
notSampler == <<fs, projVars, hubVars, contentVars, accVars, handleVars, parserVars>>

\* what the calls on the handles leave alone
notHandle == <<fs, projVars, hubVars, contentVars, accVars, samplerVars, parserVars>>

-----------------------------------------------------------------------------
(* Values shared by all parts of the model *)

None == [none |-> TRUE]

NaN == "NaN"

\* subpath=None of DataAccessor(url, subpath=None)
NoSubpath == "<None>"

Range(s) == {s[i] : i \in 1..Len(s)}

\* "abc".endswith(suffix)
EndsWith(s, suffix) ==
    /\ Len(s) >= Len(suffix)
    /\ SubSeq(s, Len(s) - Len(suffix) + 1, Len(s)) = suffix

\* url lies inside the directory root
IsUnder(url, root) ==
    /\ Len(url) > Len(root) + 1
    /\ SubSeq(url, 1, Len(root) + 1) = root \o <<"/">>

\* a storage in which every path is taken to exist
PathExistsAlways(store, url) == TRUE

\* pathlib.Path(url).exists(): a file at url, or a directory holding a file
PathExists(store, url) ==
    \/ url \in DOMAIN store
    \/ \E u \in DOMAIN store : IsUnder(u, url)

\* no hub operation is running
HubIdle ==
    /\ hub_pc = "idle"
    /\ hub_call = None
    /\ fs_before = <<>>
    /\ hub_raised = None
    /\ nb_ops = 0

\* no accessor exists
AccIdle ==
    /\ accessor = None
    /\ acc_args = None
    /\ acc_pc = "idle"
    /\ acc_result = None
    /\ nb_acc_actions = 0
    /\ scope_outcome = None

\* what the command parser leaves alone
notParser == <<fs, projVars, hubVars, contentVars, accVars, samplerVars, handleVars>>

\* no command is being parsed
ParserIdle ==
    /\ command = <<>>
    /\ machine = None

\* no handle object exists
HandleIdle ==
    /\ handles = <<>>
    /\ handle_calls = <<>>

\* no sampler has been given anything
SamplerIdle ==
    /\ sampler = None
    /\ raw_data_dict = None
    /\ rng_state = 0
    /\ sample_calls = <<>>

\* no content object exists
ContentIdle ==
    /\ contents = <<>>
    /\ slice_def = <<>>
    /\ filter_calls = <<>>
    /\ first_df = None

\* project is not running
ProjIdle ==
    /\ input_db = <<>>
    /\ output_db = <<>>
    /\ must_save = <<>>
    /\ pc = "idle"
    /\ hub_pos = 1
    /\ item_pos = 1
    /\ source_keys = <<>>
    /\ source_data_dict = <<>>
    /\ skipped_datasets = <<>>
    /\ skipped_by_hub = {}
    /\ all_dataset_rel_urls_s = {}
    /\ nb_loaded = 0
    /\ skipped_report = {}
    /\ stats_input_relative_paths = <<>>
    /\ stats_input_nb_rows = <<>>
    /\ stats_input_nb_columns = <<>>
    /\ stats_output_relative_paths = <<>>
    /\ stats_output_nb_rows = <<>>
    /\ stats_output_nb_columns = <<>>
    /\ projected_keys = <<>>
    /\ projected_data_dict = <<>>
    /\ nb_saved = 0
    /\ persist_log = <<>>
    /\ stats_df = None
    /\ raised = None

\* a Python dict keeps its keys in the order of their first insertion
DictKeysPut(keys, k) == IF k \in Range(keys) THEN keys ELSE Append(keys, k)

DictPut(d, k, v) == [x \in DOMAIN d \cup {k} |-> IF x = k THEN v ELSE d[x]]

-----------------------------------------------------------------------------
(* Tables: a pandas DataFrame is its column labels and its rows; a row is  *)
(* its index label and its cell values.                                    *)

NbRows(df) == Len(df.rows)

NbColumns(df) == Len(df.columns)

\* pandas.Series.isin(allowed_values)
IsIn(value, allowed_values) == value \in allowed_values

\* df[df[column].isin(allowed_values)]
SelectRows(df, column, allowed_values) ==
    [columns |-> df.columns,
     rows    |-> SelectSeq(df.rows,
                     LAMBDA r : IsIn(r.val[column], allowed_values))]

\* a constraint on a field that is no column empties the table
RECURSIVE ApplyConstraintsStrict(_, _)
ApplyConstraintsStrict(filtered_df, filters_to_apply) ==
    IF filters_to_apply = <<>> THEN filtered_df
    ELSE LET constraint == Head(filters_to_apply)
             column     == constraint.field
             next_df    == IF column \in Range(filtered_df.columns)
                           THEN SelectRows(filtered_df, column,
                                           constraint.allowed_values)
                           ELSE [columns |-> filtered_df.columns, rows |-> <<>>]
         IN  ApplyConstraintsStrict(next_df, Tail(filters_to_apply))

\* DataFrameDataSetContent.filter: the loop over slice_def.filters_to_apply
RECURSIVE ApplyConstraints(_, _)
ApplyConstraints(filtered_df, filters_to_apply) ==
    IF filters_to_apply = <<>> THEN filtered_df
    ELSE LET constraint == Head(filters_to_apply)
             column     == constraint.field
             next_df    == IF column \in Range(filtered_df.columns)
                           THEN SelectRows(filtered_df, column,
                                           constraint.allowed_values)
                           ELSE filtered_df
         IN  ApplyConstraints(next_df, Tail(filters_to_apply))

\* a filter that drops the rows from the receiver's own DataFrame
ContentFilterInPlace(data_df, filters) ==
    [receiver_df |-> ApplyConstraints(data_df, filters),
     result_df   |-> ApplyConstraints(data_df, filters),
     is_new      |-> TRUE]

\* DataFrameDataSetContent.filter: the receiver's DataFrame after the call,
\* the DataFrame of the returned content, and whether that is a new object
ContentFilter(data_df, filters) ==
    [receiver_df |-> data_df,
     result_df   |-> ApplyConstraints(data_df, filters),
     is_new      |-> TRUE]

\* DataFrameDataSetContent(data_df).filter(slice_def).data_df
FilterDF(data_df, filters) == ContentFilter(data_df, filters).result_df

\* the column labels of pandas.concat: the union, in order of first appearance
RECURSIVE ConcatColumns(_)
ConcatColumns(df_list) ==
    IF df_list = <<>> THEN <<>>
    ELSE LET rest == ConcatColumns(Tail(df_list))
             head == Head(df_list).columns
         IN  head \o SelectSeq(rest, LAMBDA c : c \notin Range(head))

\* a concatenation that keeps the first fragment only
ConcatFirstOnly(df_list) == Head(df_list)

RECURSIVE ConcatRows(_)
ConcatRows(df_list) ==
    IF df_list = <<>> THEN <<>>
    ELSE Head(df_list).rows \o ConcatRows(Tail(df_list))

\* pandas.concat(df_list) of a non-empty list: rows appended with their index
\* labels, a cell of a column the fragment lacks is NaN
Concat(df_list) ==
    LET cols == ConcatColumns(df_list)
        all  == ConcatRows(df_list)
    IN  [columns |-> cols,
         rows    |-> [i \in 1..Len(all) |->
                        [idx |-> all[i].idx,
                         val |-> [c \in Range(cols) |->
                                    IF c \in DOMAIN all[i].val
                                    THEN all[i].val[c] ELSE NaN]]]]

-----------------------------------------------------------------------------
(* Workbook files.  A worksheet holds a header and cell rows, no index.    *)

UnnamedColumn == "Unnamed: 0"

\* DataFrame.to_excel: the index is written as a first column without header
ToExcelSheet(data_df) ==
    [columns |-> <<UnnamedColumn>> \o data_df.columns,
     cells   |-> [i \in 1..Len(data_df.rows) |->
                    [c \in Range(data_df.columns) \cup {UnnamedColumn} |->
                        IF c = UnnamedColumn THEN data_df.rows[i].idx
                        ELSE data_df.rows[i].val[c]]]]

\* pandas.read_excel: a fresh RangeIndex 0..n-1
ReadExcelSheet(sheet) ==
    [columns |-> sheet.columns,
     rows    |-> [i \in 1..Len(sheet.cells) |->
                    [idx |-> i - 1, val |-> sheet.cells[i]]]]

\* DataFrameUtils._drop_spurious_columns
DropSpuriousColumns(input_df) ==
    LET SPURIOUS_COLUMNS == {"Unnamed: 0", "Unnamed: 0.1"}
        kept == SelectSeq(input_df.columns, LAMBDA c : c \notin SPURIOUS_COLUMNS)
    IN  [columns |-> kept,
         rows    |-> [i \in 1..Len(input_df.rows) |->
                        [idx |-> input_df.rows[i].idx,
                         val |-> [c \in Range(kept) |-> input_df.rows[i].val[c]]]]]

Workbook(sheets) == [kind |-> "xlsx", sheets |-> sheets]

-----------------------------------------------------------------------------
(* DataAccessor: the result of a call is what it returned or raised and    *)
(* the loads it made from storage.                                         *)

XLSX == <<".", "x", "l", "s", "x">>

CSV == <<".", "c", "s", "v">>

Returned(value, loads) ==
    [status |-> "returned", value |-> value, error |-> None, loads |-> loads]

Raised(error, loads) ==
    [status |-> "raised", value |-> None, error |-> error, loads |-> loads]

\* DataAccessor._url_to_csv
UrlToCsv(some_url) ==
    IF EndsWith(some_url, XLSX)
    THEN SubSeq(some_url, 1, Len(some_url) - 4) \o CSV
    ELSE IF EndsWith(some_url, CSV) THEN some_url
    ELSE some_url \o CSV

\* DFU.load_csv(csv_path): class DataFrameUtils defines no load_csv, so the
\* attribute lookup raises AttributeError before anything is read
LoadCsv(store, csv_path) ==
    Raised([type |-> "AttributeError", text |-> "no attribute load_csv",
            url |-> csv_path, sheets |-> <<>>], <<>>)

\* DataFrameUtils.load_excel
LoadExcel(store, path, sheet_name) ==
    LET load == <<[op |-> "load_excel", path |-> path, sheet |-> sheet_name]>>
    IN  IF path \notin DOMAIN store
        THEN Raised([type |-> "OSError", text |-> "not a file",
                     url |-> path, sheets |-> <<>>], load)
        ELSE IF store[path].kind # "xlsx"
        THEN Raised([type |-> "ValueError", text |-> "Excel file format cannot be determined",
                     url |-> path, sheets |-> <<>>], load)
        ELSE IF sheet_name \notin DOMAIN store[path].sheets
        THEN Raised([type |-> "ValueError", text |-> "Worksheet not found",
                     url |-> path, sheets |-> <<sheet_name>>], load)
        ELSE Returned(DropSpuriousColumns(ReadExcelSheet(store[path].sheets[sheet_name])),
                      load)

\* DataAccessor._retrieve_csv
RetrieveCsv(store, url, fail_if_not_found) ==
    LET csv_path == UrlToCsv(url)
        loaded   == LoadCsv(store, csv_path)
        attempt  == <<[op |-> "load_csv", path |-> csv_path]>>
    IN  IF ~PathExists(store, csv_path)
        THEN IF fail_if_not_found
             THEN Raised([type |-> "ValueError", text |-> "does not exist",
                          url |-> csv_path, sheets |-> <<>>], <<>>)
             ELSE Returned(None, <<>>)
        ELSE IF loaded.status = "raised"
        THEN IF fail_if_not_found
             THEN Raised([type |-> "ValueError", text |-> "Unable to retrieve",
                          url |-> csv_path, sheets |-> <<>>], attempt)
             ELSE Returned(None, attempt)
        ELSE Returned(loaded.value, attempt)

\* DataAccessor._retrieve_excel: the loop over sheets_to_try, from position k
RECURSIVE TrySheets(_, _, _, _, _)
TrySheets(store, url, sheets_to_try, k, loads) ==
    IF k > Len(sheets_to_try) THEN Returned(None, loads)
    ELSE LET sheet  == sheets_to_try[k]
             loaded == LoadExcel(store, url, sheet)
             sofar  == loads \o loaded.loads
         IN  IF loaded.status = "raised"
             THEN IF /\ loaded.error.type = "ValueError"
                     /\ loaded.error.text = "Worksheet not found"
                     /\ loaded.error.sheets = <<sheet>>
                  THEN TrySheets(store, url, sheets_to_try, k + 1, sofar)
                  ELSE Raised(loaded.error, sofar)
             ELSE Returned(loaded.value, sofar)

SheetsToTry(subpath, alternative_subpaths) ==
    <<IF subpath = NoSubpath THEN "Sheet1" ELSE subpath>> \o alternative_subpaths

\* DataAccessor._retrieve_excel
RetrieveExcel(store, url, subpath, alternative_subpaths, fail_if_not_found) ==
    LET sheets_to_try == SheetsToTry(subpath, alternative_subpaths)
        tried         == TrySheets(store, url, sheets_to_try, 1, <<>>)
    IN  IF ~PathExists(store, url)
        THEN IF fail_if_not_found
             THEN Raised([type |-> "ValueError", text |-> "does not exist",
                          url |-> url, sheets |-> <<>>], <<>>)
             ELSE Returned(None, <<>>)
        ELSE IF tried.status = "raised" THEN tried
        ELSE IF tried.value = None /\ fail_if_not_found
        THEN Raised([type |-> "ValueError", text |-> "no worksheet called",
                     url |-> url, sheets |-> sheets_to_try], tried.loads)
        ELSE tried

\* a retrieve that never fails: fail_if_not_found is taken as false
RetrieveLenient(store, url, subpath, alternative_subpaths, fail_if_not_found) ==
    LET from_csv   == RetrieveCsv(store, url, FALSE)
        from_excel == RetrieveExcel(store, url, subpath, alternative_subpaths, FALSE)
    IN  IF from_csv.value # None THEN from_csv
        ELSE IF from_excel.status = "raised"
        THEN Raised(from_excel.error, from_csv.loads \o from_excel.loads)
        ELSE Returned(from_excel.value, from_csv.loads \o from_excel.loads)

\* a retrieve that hands its fail_if_not_found to the lightweight lookup
RetrieveStrictCsv(store, url, subpath, alternative_subpaths, fail_if_not_found) ==
    LET from_csv   == RetrieveCsv(store, url, fail_if_not_found)
        from_excel == RetrieveExcel(store, url, subpath, alternative_subpaths,
                                    fail_if_not_found)
    IN  IF from_csv.status = "raised" THEN from_csv
        ELSE IF from_csv.value # None THEN from_csv
        ELSE IF from_excel.status = "raised"
        THEN Raised(from_excel.error, from_csv.loads \o from_excel.loads)
        ELSE Returned(from_excel.value, from_csv.loads \o from_excel.loads)

\* DataAccessor.retrieve
Retrieve(store, url, subpath, alternative_subpaths, fail_if_not_found) ==
    LET from_csv   == RetrieveCsv(store, url, FALSE)
        from_excel == RetrieveExcel(store, url, subpath, alternative_subpaths,
                                    fail_if_not_found)
        loads      == from_csv.loads \o from_excel.loads
        sheets_to_try == SheetsToTry(subpath, alternative_subpaths)
    IN  IF from_csv.status = "raised" THEN from_csv
        ELSE IF from_csv.value # None THEN from_csv
        ELSE IF from_excel.status = "raised" THEN Raised(from_excel.error, loads)
        ELSE IF from_excel.value = None /\ fail_if_not_found
        THEN Raised([type |-> "ValueError", text |-> "no worksheet called",
                     url |-> url, sheets |-> sheets_to_try], loads)
        ELSE Returned(from_excel.value, loads)

\* DataAccessor.persist: the workbook at url is replaced by one worksheet
Persist(store, url, subpath, data_df) ==
    LET sheet_name == IF subpath = NoSubpath THEN "Sheet1" ELSE subpath
    IN  DictPut(store, url, Workbook(sheet_name :> ToExcelSheet(data_df)))

-----------------------------------------------------------------------------
(* The DataAccessor object and its __exit__ *)

\* the ACTION attribute while it is None
NoAction == "<None>"

\* DataAccessor(url, subpath): __init__
DataAccessor(url, subpath) == [url |-> url, subpath |-> subpath, action |-> NoAction]

\* an exception the operating system raises in an action on url
Failure(type, url) ==
    [type |-> type, text |-> "raised by the operating system", url |-> url,
     sheets |-> <<>>]

\* the exceptions that are instances of Exception
IsException(type) == type # "KeyboardInterrupt"

\* an __exit__ that translates every exception of the block
ExitTranslatesAll(self, exc_value) ==
    IF exc_value = None THEN [raises |-> FALSE, error |-> None]
    ELSE [raises |-> TRUE,
          error |-> [type |-> "ValueError", text |-> "Please close file(s)",
                     url |-> self.url, action |-> self.action]]

\* DataAccessor.__exit__(exc_type, exc_value, exc_tb): what it raises;
\* "Please close ..." + self.ACTION is a TypeError while ACTION is None
Exit(self, exc_value) ==
    IF exc_value = None THEN [raises |-> FALSE, error |-> None]
    ELSE IF exc_value.type = "PermissionError"
    THEN IF self.action = NoAction
         THEN [raises |-> TRUE,
               error |-> [type |-> "TypeError",
                          text |-> "can only concatenate str (not NoneType) to str"]]
         ELSE [raises |-> TRUE,
               error |-> [type |-> "ValueError", text |-> "Please close file(s)",
                          url |-> self.url, action |-> self.action]]
    ELSE IF IsException(exc_value.type)
    THEN [raises |-> TRUE, error |-> exc_value]
    ELSE [raises |-> FALSE, error |-> None]

\* what `with DataAccessor(url) as ax:` raises when ax's action, which has
\* set ACTION, fails
RaisedInScope(url, action, failure) ==
    Exit([DataAccessor(url, NoSubpath) EXCEPT !.action = action],
         Failure(failure, url)).error

-----------------------------------------------------------------------------
(* Data hubs and their handles *)

\* RelativeDataHubHandle(db_root_folder, relative_path)
RelativeDataHubHandle(db_root_folder, relative_path) ==
    [variant |-> "relative", db_root_folder |-> db_root_folder,
     relative_path |-> relative_path]

\* AbsoluteDataHubHandle(hub_root_folder)
AbsoluteDataHubHandle(hub_root_folder) ==
    [variant |-> "absolute", hub_root_folder |-> hub_root_folder]

\* DataHubHandle.hub_root
HubRoot(hub_handle) ==
    IF hub_handle.variant = "relative"
    THEN hub_handle.db_root_folder \o <<"/">> \o hub_handle.relative_path
    ELSE hub_handle.hub_root_folder

\* DataHubHandle.snapshot_handle
SnapshotHandle(hub_handle, snapshot_root_folder) ==
    IF hub_handle.variant = "relative"
    THEN RelativeDataHubHandle(snapshot_root_folder, hub_handle.relative_path)
    ELSE AbsoluteDataHubHandle(snapshot_root_folder)

\* SingleRootDataHub(name, hub_handle)
SingleRootDataHub(name, hub_handle) == [name |-> name, hub_handle |-> hub_handle]

-----------------------------------------------------------------------------
(* DataBaseProjector.project: the inputs of the model *)

NumHubs == 2

Digits == <<"1", "2", "3", "4">>

\* the hubs of the input database, rooted at i/1, i/2, ...
InputHubs ==
    [i \in 1..NumHubs |->
        SingleRootDataHub(Digits[i], RelativeDataHubHandle(<<"i">>, <<Digits[i]>>))]

\* the hubs of the output database, rooted at o/1, o/2, ...
OutputHubs ==
    [i \in 1..NumHubs |->
        SingleRootDataHub(Digits[i], RelativeDataHubHandle(<<"o">>, <<Digits[i]>>))]

Reverse(s) == [i \in 1..Len(s) |-> s[Len(s) + 1 - i]]

\* output manifests: the input's hub names in the same order, in reverse
\* order, and with the last hub missing
OutputManifests ==
    {OutputHubs, Reverse(OutputHubs), SubSeq(OutputHubs, 1, NumHubs - 1)}

\* self.datasets_in_scope: DataSetIdentity.path_within_hub() and subpaths()
DatasetsInScope ==
    << [name |-> "a", path_within_hub |-> <<"a">> \o XLSX, subpaths |-> <<"A", "B">>],
       [name |-> "b", path_within_hub |-> <<"b">> \o XLSX, subpaths |-> <<"A">>] >>

RelativeUrls == {DatasetsInScope[j].path_within_hub : j \in 1..Len(DatasetsInScope)}

\* self.projection_filter(): a SliceDefinition is its filters_to_apply, each
\* an AnyOfFilter(field, allowed_values)
AnyOfFilter(field, allowed_values) ==
    [field |-> field, allowed_values |-> allowed_values]

ProjectionFilter == << AnyOfFilter("k", {"x"}) >>

\* a worksheet the projection filter keeps a row of, and one it empties
SheetKeep == [columns |-> <<"k">>, cells |-> << [k |-> "x"] >>]

SheetDrop == [columns |-> <<"k", "v">>, cells |-> << [k |-> "y", v |-> "x"] >>]

NoFile == [kind |-> "absent"]

\* the first n worksheets of subpath_l exist, the first holds `first`
Filling(subpath_l, n, first) ==
    [s \in {subpath_l[k] : k \in 1..n} |->
        IF s = subpath_l[1] THEN first ELSE SheetDrop]

\* what a hub may hold at a dataset's url: nothing, a workbook with the first
\* worksheet, or, for a dataset split over several worksheets, a workbook
\* with none of them or with the first several
FileOptions(dataset_id) ==
    LET subpath_l == dataset_id.subpaths
    IN  {NoFile}
        \cup {Workbook(Filling(subpath_l, 1, f)) : f \in {SheetKeep, SheetDrop}}
        \cup {Workbook(Filling(subpath_l, n, SheetKeep)) :
                 n \in IF Len(subpath_l) > 1 THEN {0} \cup (2..Len(subpath_l)) ELSE {}}

FullUrl(hub_root, relative_url) == hub_root \o <<"/">> \o relative_url

HubDatasetPairs == (1..NumHubs) \X (1..Len(DatasetsInScope))

InputUrl(p) ==
    FullUrl(HubRoot(InputHubs[p[1]].hub_handle), DatasetsInScope[p[2]].path_within_hub)

\* the file store in which hub p[1] holds choice[p] at dataset p[2]'s url
StoreOf(choice) ==
    LET present == {p \in HubDatasetPairs : choice[p] # NoFile}
    IN  [u \in {InputUrl(p) : p \in present} |->
            choice[CHOOSE p \in present : InputUrl(p) = u]]

AllFileOptions == UNION {FileOptions(DatasetsInScope[j]) : j \in 1..Len(DatasetsInScope)}

\* a workbook that an earlier run left in the output database
StaleFile == Workbook("Old" :> SheetKeep)

\* the output database: every hub holds a workbook of an earlier run at the
\* url of the first dataset and nothing at the urls of the others
OutputStore ==
    [u \in {FullUrl(HubRoot(OutputHubs[i].hub_handle),
                    DatasetsInScope[1].path_within_hub) : i \in 1..NumHubs}
        |-> StaleFile]

ProjectStores ==
    {StoreOf(choice) @@ OutputStore : choice \in
        {c \in [HubDatasetPairs -> AllFileOptions] :
            \A p \in HubDatasetPairs : c[p] \in FileOptions(DatasetsInScope[p[2]])}}

\* what the operating system may do to a read or a write of project
ProjectFailures == {"none", "PermissionError"}

\* must_save_even_if_empty: the default, and an override for one dataset
MustSaveOptions ==
    {[u \in RelativeUrls |-> FALSE],
     [u \in RelativeUrls |-> u = DatasetsInScope[1].path_within_hub]}

-----------------------------------------------------------------------------
(* DataBaseProjector.project *)

\* DataBaseProjector.must_save_even_if_empty, as the subclass overrides it
MustSaveEvenIfEmpty(relative_url) == must_save[relative_url]

\* _DataSetInfo(hub_name, hub_handle, sheet, data_df)
DataSetInfo(hub_name, hub_handle, sheet, data_df) ==
    [hub_name |-> hub_name, hub_handle |-> hub_handle, sheet |-> sheet,
     data_df |-> data_df]

\* the intersection, over the hubs, of what each hub skipped
RECURSIVE IntersectSkipped(_, _, _)
IntersectSkipped(acc, skipped, hub_names) ==
    IF hub_names = {} THEN acc
    ELSE LET hub_name == CHOOSE n \in hub_names : TRUE
         IN  IntersectSkipped(acc \cap skipped[hub_name], skipped,
                              hub_names \ {hub_name})

\* the relative urls that skipped_msg lists
SkippedMsgUrls(loaded, nb_in_scope, all_urls, skipped) ==
    IF loaded < nb_in_scope
    THEN IntersectSkipped(all_urls, skipped, DOMAIN skipped)
    ELSE {}

\* the assertion compiled away
AlignmentAssertionDisabled(input_paths, output_paths) == TRUE

\* assert stats_input_relative_paths == stats_output_relative_paths
AlignmentAssertion(input_paths, output_paths) == input_paths = output_paths

\* the Save loop without the escape hatch
SkipsSavingEveryEmpty(projected_df, relative_url) == NbRows(projected_df) = 0

\* a Save loop that skips nothing
SkipsSavingNothing(projected_df, relative_url) == FALSE

\* whether the Save loop skips the dataset
SkipsSaving(projected_df, relative_url) ==
    NbRows(projected_df) = 0 /\ ~MustSaveEvenIfEmpty(relative_url)

ProjInit ==
    /\ fs \in ProjectStores
    /\ input_db = InputHubs
    /\ output_db \in OutputManifests
    /\ must_save \in MustSaveOptions
    /\ pc = "load"
    /\ hub_pos = 1
    /\ item_pos = 1
    /\ source_keys = <<>>
    /\ source_data_dict = <<>>
    /\ skipped_datasets = <<>>
    /\ skipped_by_hub = {}
    /\ all_dataset_rel_urls_s = {}
    /\ nb_loaded = 0
    /\ skipped_report = {}
    /\ stats_input_relative_paths = <<>>
    /\ stats_input_nb_rows = <<>>
    /\ stats_input_nb_columns = <<>>
    /\ stats_output_relative_paths = <<>>
    /\ stats_output_nb_rows = <<>>
    /\ stats_output_nb_columns = <<>>
    /\ projected_keys = <<>>
    /\ projected_data_dict = <<>>
    /\ nb_saved = 0
    /\ persist_log = <<>>
    /\ stats_df = None
    /\ raised = None
    /\ HubIdle
    /\ ContentIdle
    /\ AccIdle
    /\ SamplerIdle
    /\ HandleIdle
    /\ ParserIdle

\* a pandas.concat that accepts an empty list
ConcatAcceptsEmpty(df_list) == FALSE

\* pandas.concat(df_list) raises ValueError when df_list is empty
ConcatRaises(df_list) == df_list = <<>>

\* a project that calls retrieve and persist inside a with statement
RaisedAsInScope(url, action, failure) == RaisedInScope(url, action, failure)

\* what DataAccessor(url, subpath).retrieve() or .persist(data_df), called
\* without a with statement, raises when the action fails: __exit__ does
\* not run
RaisedOutsideScope(url, action, failure) == Failure(failure, url)

\* Step 1, one pass of the loop over self.datasets_in_scope; the read of a
\* url that exists may fail, and retrieve is called outside any scope
LoadDataset(failure) ==
    /\ pc = "load"
    /\ hub_pos <= Len(input_db)
    /\ item_pos <= Len(DatasetsInScope)
    /\ LET hub          == input_db[hub_pos]
           dataset_id   == DatasetsInScope[item_pos]
           relative_url == dataset_id.path_within_hub
           subpath_l    == dataset_id.subpaths
           full_url     == FullUrl(HubRoot(hub.hub_handle), relative_url)
           retrieved    == [k \in 1..Len(subpath_l) |->
                               Retrieve(fs, full_url, subpath_l[k], <<>>, FALSE)]
           failed       == {k \in 1..Len(subpath_l) : retrieved[k].status = "raised"}
           found        == SelectSeq(retrieved, LAMBDA r : r.value # None)
           df_list      == [k \in 1..Len(found) |-> found[k].value]
           data_df      == Concat(df_list)
       IN  /\ failure # "none" => PathExists(fs, full_url)
           /\ all_dataset_rel_urls_s' = all_dataset_rel_urls_s \cup {relative_url}
           /\ IF ~PathExists(fs, full_url)
              THEN /\ skipped_by_hub' = skipped_by_hub \cup {relative_url}
                   /\ item_pos' = item_pos + 1
                   /\ UNCHANGED <<pc, raised, source_keys, source_data_dict, nb_loaded,
                                  stats_input_relative_paths, stats_input_nb_rows,
                                  stats_input_nb_columns>>
              ELSE IF failure # "none"
              THEN /\ pc' = "raised"
                   /\ raised' = RaisedOutsideScope(full_url, "retrieve", failure)
                   /\ UNCHANGED <<skipped_by_hub, item_pos, source_keys,
                                  source_data_dict, nb_loaded,
                                  stats_input_relative_paths, stats_input_nb_rows,
                                  stats_input_nb_columns>>
              ELSE IF failed # {}
              THEN /\ pc' = "raised"
                   /\ raised' = retrieved[CHOOSE k \in failed :
                                             \A m \in failed : k <= m].error
                   /\ UNCHANGED <<skipped_by_hub, item_pos, source_keys,
                                  source_data_dict, nb_loaded,
                                  stats_input_relative_paths, stats_input_nb_rows,
                                  stats_input_nb_columns>>
              ELSE IF ConcatRaises(df_list)
              THEN /\ pc' = "raised"
                   /\ raised' = [type |-> "ValueError",
                                 text |-> "No objects to concatenate",
                                 url |-> full_url, sheets |-> subpath_l]
                   /\ UNCHANGED <<skipped_by_hub, item_pos, source_keys,
                                  source_data_dict, nb_loaded,
                                  stats_input_relative_paths, stats_input_nb_rows,
                                  stats_input_nb_columns>>
              ELSE /\ source_keys' = DictKeysPut(source_keys, relative_url)
                   /\ source_data_dict' =
                          DictPut(source_data_dict, relative_url,
                                  DataSetInfo(hub.name, hub.hub_handle,
                                              subpath_l[1], data_df))
                   /\ stats_input_relative_paths' =
                          Append(stats_input_relative_paths, relative_url)
                   /\ stats_input_nb_rows' =
                          Append(stats_input_nb_rows, NbRows(data_df))
                   /\ stats_input_nb_columns' =
                          Append(stats_input_nb_columns, NbColumns(data_df))
                   /\ nb_loaded' = nb_loaded + 1
                   /\ item_pos' = item_pos + 1
                   /\ UNCHANGED <<pc, raised, skipped_by_hub>>
    /\ UNCHANGED <<fs, projInputs, hub_pos, skipped_datasets, skipped_report,
                   projProject, projSave, stats_df>>
    /\ UNCHANGED notProj

\* Step 1, the end of one pass of the loop over input_db.get_data_hubs()
LoadHubDone ==
    /\ pc = "load"
    /\ hub_pos <= Len(input_db)
    /\ item_pos > Len(DatasetsInScope)
    /\ skipped_datasets' =
           DictPut(skipped_datasets, input_db[hub_pos].name, skipped_by_hub)
    /\ skipped_by_hub' = {}
    /\ hub_pos' = hub_pos + 1
    /\ item_pos' = 1
    /\ UNCHANGED <<fs, projInputs, pc, source_keys, source_data_dict,
                   all_dataset_rel_urls_s, nb_loaded, skipped_report,
                   stats_input_relative_paths, stats_input_nb_rows,
                   stats_input_nb_columns, projProject, projSave, stats_df, raised>>
    /\ UNCHANGED notProj

\* Step 1, after the loops: skipped_msg and the "Loaded" message
LoadReport ==
    /\ pc = "load"
    /\ hub_pos > Len(input_db)
    /\ skipped_report' = SkippedMsgUrls(nb_loaded, Len(DatasetsInScope),
                                        all_dataset_rel_urls_s, skipped_datasets)
    /\ pc' = "project"
    /\ hub_pos' = 1
    /\ item_pos' = 1
    /\ UNCHANGED <<fs, projInputs, source_keys, source_data_dict, skipped_datasets,
                   skipped_by_hub, all_dataset_rel_urls_s, nb_loaded,
                   stats_input_relative_paths, stats_input_nb_rows,
                   stats_input_nb_columns, projProject, projSave, stats_df, raised>>
    /\ UNCHANGED notProj

\* Step 2, one pass of the loop over self.source_data_dict.keys()
ProjectDataset ==
    /\ pc = "project"
    /\ hub_pos <= Len(output_db)
    /\ item_pos <= Len(source_keys)
    /\ LET projected_hub == output_db[hub_pos]
           relative_url  == source_keys[item_pos]
           data_info     == source_data_dict[relative_url]
           projected_df  == FilterDF(data_info.data_df, ProjectionFilter)
       IN  IF projected_hub.name # data_info.hub_name
           THEN UNCHANGED projProject
           ELSE /\ projected_keys' = DictKeysPut(projected_keys, relative_url)
                /\ projected_data_dict' =
                       DictPut(projected_data_dict, relative_url,
                               DataSetInfo(projected_hub.name, projected_hub.hub_handle,
                                           data_info.sheet, projected_df))
                /\ stats_output_relative_paths' =
                       Append(stats_output_relative_paths, relative_url)
                /\ stats_output_nb_rows' =
                       Append(stats_output_nb_rows, NbRows(projected_df))
                /\ stats_output_nb_columns' =
                       Append(stats_output_nb_columns, NbColumns(projected_df))
    /\ item_pos' = item_pos + 1
    /\ UNCHANGED <<fs, projInputs, pc, hub_pos, projLoad, projSave, stats_df, raised>>
    /\ UNCHANGED notProj

\* Step 2, the end of one pass of the loop over output_db.get_data_hubs()
ProjectHubDone ==
    /\ pc = "project"
    /\ hub_pos <= Len(output_db)
    /\ item_pos > Len(source_keys)
    /\ hub_pos' = hub_pos + 1
    /\ item_pos' = 1
    /\ UNCHANGED <<fs, projInputs, pc, projLoad, projProject, projSave, stats_df, raised>>
    /\ UNCHANGED notProj

\* a Project phase that leaves for the Save phase after its first output hub
ProjectReportEarly ==
    /\ pc = "project"
    /\ hub_pos > 1
    /\ pc' = "save"
    /\ item_pos' = 1
    /\ UNCHANGED <<fs, projInputs, hub_pos, projLoad, projProject, projSave,
                   stats_df, raised>>
    /\ UNCHANGED notProj

\* a Project phase that ends with the alignment assertion
ProjectReportAsserting ==
    /\ pc = "project"
    /\ hub_pos > Len(output_db)
    /\ IF AlignmentAssertion(stats_input_relative_paths, stats_output_relative_paths)
       THEN pc' = "save" /\ UNCHANGED raised
       ELSE /\ pc' = "raised"
            /\ raised' = [type |-> "AssertionError", text |-> "",
                          url |-> <<>>, sheets |-> <<>>]
    /\ item_pos' = 1
    /\ UNCHANGED <<fs, projInputs, hub_pos, projLoad, projProject, projSave,
                   stats_df>>
    /\ UNCHANGED notProj

\* Step 2, after the loops: the "Projected" message
ProjectReport ==
    /\ pc = "project"
    /\ hub_pos > Len(output_db)
    /\ pc' = "save"
    /\ item_pos' = 1
    /\ UNCHANGED <<fs, projInputs, hub_pos, projLoad, projProject, projSave,
                   stats_df, raised>>
    /\ UNCHANGED notProj

\* Step 3, one pass of the loop over projected_data_dict.keys(); the write
\* may fail, and persist is called outside any scope
SaveDataset(failure) ==
    /\ pc = "save"
    /\ item_pos <= Len(projected_keys)
    /\ LET relative_url   == projected_keys[item_pos]
           projected_info == projected_data_dict[relative_url]
           projected_df   == projected_info.data_df
           full_url       == FullUrl(HubRoot(projected_info.hub_handle), relative_url)
           subpath        == projected_info.sheet
       IN  /\ failure # "none" => ~SkipsSaving(projected_df, relative_url)
           /\ IF SkipsSaving(projected_df, relative_url)
              THEN /\ item_pos' = item_pos + 1
                   /\ UNCHANGED <<fs, pc, raised, projSave>>
              ELSE IF failure # "none"
              THEN /\ pc' = "raised"
                   /\ raised' = RaisedOutsideScope(full_url, NoAction, failure)
                   /\ UNCHANGED <<fs, item_pos, projSave>>
              ELSE /\ fs' = Persist(fs, full_url, subpath, projected_df)
                   /\ persist_log' = Append(persist_log,
                          [url |-> full_url, subpath |-> subpath,
                           relative_url |-> relative_url, data_df |-> projected_df])
                   /\ nb_saved' = nb_saved + 1
                   /\ item_pos' = item_pos + 1
                   /\ UNCHANGED <<pc, raised>>
    /\ UNCHANGED <<projInputs, hub_pos, projLoad, projProject, stats_df>>
    /\ UNCHANGED notProj

\* after Step 3: the assertion, the statistics DataFrame and the return
ReturnStatistics ==
    /\ pc = "save"
    /\ item_pos > Len(projected_keys)
    /\ IF ~AlignmentAssertion(stats_input_relative_paths, stats_output_relative_paths)
       THEN /\ pc' = "raised"
            /\ raised' = [type |-> "AssertionError", text |-> "",
                          url |-> <<>>, sheets |-> <<>>]
            /\ UNCHANGED stats_df
       ELSE IF Len(stats_input_relative_paths) # Len(stats_output_nb_rows)
       THEN /\ pc' = "raised"
            /\ raised' = [type |-> "ValueError",
                          text |-> "All arrays must be of the same length",
                          url |-> <<>>, sheets |-> <<>>]
            /\ UNCHANGED stats_df
       ELSE /\ pc' = "returned"
            /\ stats_df' = [relative_url      |-> stats_input_relative_paths,
                            input_nb_rows     |-> stats_input_nb_rows,
                            input_nb_columns  |-> stats_input_nb_columns,
                            output_nb_rows    |-> stats_output_nb_rows,
                            output_nb_columns |-> stats_output_nb_columns]
            /\ UNCHANGED raised
    /\ UNCHANGED <<fs, projInputs, hub_pos, item_pos, projLoad, projProject, projSave>>
    /\ UNCHANGED notProj

ProjNext ==
    \/ \E failure \in ProjectFailures : LoadDataset(failure)
    \/ LoadHubDone
    \/ LoadReport
    \/ ProjectDataset
    \/ ProjectHubDone
    \/ ProjectReport
    \/ \E failure \in ProjectFailures : SaveDataset(failure)
    \/ ReturnStatistics

SpecProject == ProjInit /\ [][ProjNext]_vars

-----------------------------------------------------------------------------
(* Properties of DataBaseProjector.project *)

LoadFinished == pc \in {"project", "save", "returned"}

\* the destination of a projected dataset
DestinationUrl(relative_url) ==
    FullUrl(HubRoot(projected_data_dict[relative_url].hub_handle), relative_url)

\* the Save phase has persisted the projection of relative_url
IsPersisted(relative_url) ==
    LET info == projected_data_dict[relative_url]
    IN  /\ \E k \in 1..Len(persist_log) :
              /\ persist_log[k].relative_url = relative_url
              /\ persist_log[k].url = DestinationUrl(relative_url)
              /\ persist_log[k].data_df = info.data_df
        /\ DestinationUrl(relative_url) \in DOMAIN fs
        /\ fs[DestinationUrl(relative_url)] =
               Workbook(info.sheet :> ToExcelSheet(info.data_df))

\* the projected datasets the Save loop has dealt with
SaveHandled ==
    IF pc \in {"save", "raised"}
    THEN {projected_keys[k] : k \in (1..(item_pos - 1)) \cap DOMAIN projected_keys}
    ELSE IF pc = "returned" THEN Range(projected_keys)
    ELSE {}

\* C1: project returns a statistics table only if the relative urls recorded
\* during Load equal, as a sequence, those recorded during Project, so that
\* row i's input and output counts belong to the same relative url; a run
\* that does not return has produced no table.
C1_StatisticsAligned ==
    /\ pc = "returned" =>
          /\ stats_df # None
          /\ stats_df.relative_url = stats_input_relative_paths
          /\ stats_df.relative_url = stats_output_relative_paths
          /\ \A i \in 1..Len(stats_df.relative_url) :
                LET u == stats_df.relative_url[i]
                IN  /\ stats_df.input_nb_rows[i] = NbRows(source_data_dict[u].data_df)
                    /\ stats_df.output_nb_rows[i] = NbRows(projected_data_dict[u].data_df)
                    /\ stats_df.output_nb_columns[i] =
                           NbColumns(projected_data_dict[u].data_df)
    /\ pc # "returned" => stats_df = None

C1_Witness ==
    /\ pc = "returned"
    /\ Len(stats_df.relative_url) = 2
    /\ stats_df.output_nb_rows[1] # stats_df.output_nb_rows[2]

\* the in-scope relative urls that exist in no input hub
MissingFromEveryHub ==
    {u \in RelativeUrls :
        \A i \in 1..Len(input_db) :
            ~PathExists(fs, FullUrl(HubRoot(input_db[i].hub_handle), u))}

\* C2: after the Load phase the reported skipped set is exactly the set of
\* in-scope relative urls that exist in no input hub.
C2_SkippedReportExact ==
    LoadFinished => skipped_report = MissingFromEveryHub

\* C3: a projected dataset with zero rows is persisted if and only if
\* must_save_even_if_empty(relative_url) is true, and every projected dataset
\* with at least one row is persisted.
C3_EmptyOutputSuppression ==
    \A u \in SaveHandled :
        LET projected_df == projected_data_dict[u].data_df
        IN  /\ NbRows(projected_df) = 0 => (IsPersisted(u) <=> must_save[u])
            /\ NbRows(projected_df) > 0 => IsPersisted(u)

C3_Witness ==
    /\ pc = "returned"
    /\ \E u, w \in Range(projected_keys) :
          /\ NbRows(projected_data_dict[u].data_df) = 0
          /\ must_save[u] /\ IsPersisted(u)
          /\ NbRows(projected_data_dict[w].data_df) = 0
          /\ ~must_save[w] /\ ~IsPersisted(w)

-----------------------------------------------------------------------------
(* SingleRootDataHub: populate_from_seed, enrich_from_seed, create_snapshot *)

MaxOps == 2

Blob(data) == [kind |-> "blob", data |-> data]

\* the hubs: one with an absolute handle rooted at p, one with a relative
\* handle rooted at q/r
HubP == SingleRootDataHub("P", AbsoluteDataHubHandle(<<"p">>))

HubQ == SingleRootDataHub("Q", RelativeDataHubHandle(<<"q">>, <<"r">>))

Hubs == {HubP, HubQ}

\* snapshot_root_folder: a fresh folder, and folders from which the handles
\* derive a hub's own root (p for HubP, q for HubQ) or a folder inside it
\* (p/s for HubP, q/r for HubQ)
SnapshotFolders ==
    {<<"t">>, <<"p">>, <<"p", "/", "s">>, <<"q">>, <<"q", "/", "r">>}

\* the files that may exist before the first operation, with their content
CandidateFiles ==
    (<<"p", "/", "f">> :> Blob("1")) @@
    (<<"p", "/", "g">> :> Blob("1")) @@
    (<<"q", "/", "r", "/", "f">> :> Blob("2")) @@
    (<<"q", "/", "r", "/", "h">> :> Blob("2")) @@
    (<<"p", "/", "s", "/", "x">> :> Blob("3")) @@
    (<<"t", "/", "x">> :> Blob("3"))

HubStores ==
    {[u \in present |-> CandidateFiles[u]] : present \in SUBSET DOMAIN CandidateFiles}

\* the path of url relative to root
RelativeTo(url, root) == SubSeq(url, Len(root) + 2, Len(url))

\* the content under root: relative path -> file content
Content(store, root) ==
    LET under == {u \in DOMAIN store : IsUnder(u, root)}
    IN  [rel \in {RelativeTo(u, root) : u \in under} |->
            store[FullUrl(root, rel)]]

\* a remove that leaves the tree in place
RemoveNothing(store, url) == store

\* DataAccessor(url).remove(): shutil.rmtree(url) if the path exists
Remove(store, url) ==
    [u \in {v \in DOMAIN store : v # url /\ ~IsUnder(v, url)} |-> store[u]]

\* a copy that leaves the files the destination already holds as they are
CopyTreeKeepExisting(store, src, dst) ==
    LET files  == DOMAIN Content(store, src)
        copied == [u \in DOMAIN store \cup {FullUrl(dst, rel) : rel \in files} |->
                     IF u \in DOMAIN store THEN store[u]
                     ELSE store[FullUrl(src, RelativeTo(u, dst))]]
    IN  [status |-> "returned", store |-> copied, error |-> None]

\* shutil.copytree(src, dst, dirs_exist_ok=True): every file under src is
\* copied to the same relative path under dst; a file copied onto itself is
\* a SameFileError, which copytree collects and raises at the end
CopyTree(store, src, dst) ==
    LET files  == DOMAIN Content(store, src)
        copied == [u \in DOMAIN store \cup {FullUrl(dst, rel) : rel \in files} |->
                     IF IsUnder(u, dst) /\ RelativeTo(u, dst) \in files
                     THEN store[FullUrl(src, RelativeTo(u, dst))]
                     ELSE store[u]]
    IN  IF src = dst /\ files # {}
        THEN [status |-> "raised", store |-> store,
              error |-> [type |-> "shutil.Error", text |-> "are the same file",
                         url |-> dst, sheets |-> <<>>]]
        ELSE [status |-> "returned", store |-> copied, error |-> None]

\* DataAccessor(url).copy_from(src_url): src_url is created when missing,
\* then copied into url
CopyFrom(store, url, src_url) == CopyTree(store, src_url, url)

HubRootOf(hub) == HubRoot(hub.hub_handle)

\* self._instantiate(name, hub_handle)
Instantiate(name, hub_handle) == SingleRootDataHub(name, hub_handle)

HubCall(op, self, seed_hub, target, folder) ==
    [op |-> op, self |-> self, seed_hub |-> seed_hub, target |-> target,
     snapshot_root_folder |-> folder]

CanStart ==
    /\ hub_pc \in {"idle", "returned", "raised", "copy failed"}
    /\ nb_ops < MaxOps

HubInit ==
    /\ fs \in HubStores
    /\ HubIdle
    /\ ProjIdle
    /\ ContentIdle
    /\ AccIdle
    /\ SamplerIdle
    /\ HandleIdle
    /\ ParserIdle

\* what the operating system may do to the action of a hub operation
HubFailures == {"none", "PermissionError"}

\* with DataAccessor(url) as ax: ax.remove().  rmtree runs, and may fail,
\* only when the url exists; a failing rmtree has removed some of the files
RemoveInScope(url, failure) ==
    /\ failure # "none" => PathExists(fs, url)
    /\ IF failure = "none"
       THEN /\ fs' = Remove(fs, url)
            /\ hub_pc' = "enrich"
            /\ hub_raised' = None
       ELSE /\ \E gone \in SUBSET {u \in DOMAIN fs : IsUnder(u, url)} :
                  fs' = [u \in DOMAIN fs \ gone |-> fs[u]]
            /\ hub_pc' = "raised"
            /\ hub_raised' = RaisedInScope(url, "remove", failure)

\* populate_from_seed, up to the end of the scope that removes self's content
PopulateRemove(self, seed_hub, failure) ==
    /\ CanStart
    /\ fs_before' = fs
    /\ nb_ops' = nb_ops + 1
    /\ hub_call' = HubCall("populate", self, seed_hub, self, <<>>)
    /\ RemoveInScope(HubRootOf(self), failure)
    /\ UNCHANGED notHub

\* create_snapshot, up to the end of the scope that removes the content at
\* the snapshot handle's root
SnapshotRemove(self, snapshot_root_folder, failure) ==
    /\ CanStart
    /\ fs_before' = fs
    /\ nb_ops' = nb_ops + 1
    /\ LET snapshot_handle == SnapshotHandle(self.hub_handle, snapshot_root_folder)
           snapshot_hub    == Instantiate(self.name, snapshot_handle)
       IN  /\ hub_call' = HubCall("snapshot", self, self, snapshot_hub,
                                  snapshot_root_folder)
           /\ RemoveInScope(HubRoot(snapshot_handle), failure)
    /\ UNCHANGED notHub

\* a call of enrich_from_seed by the user of the hub
EnrichCall(self, seed_hub) ==
    /\ CanStart
    /\ fs_before' = fs
    /\ nb_ops' = nb_ops + 1
    /\ hub_call' = HubCall("enrich", self, seed_hub, self, <<>>)
    /\ hub_pc' = "enrich"
    /\ hub_raised' = None
    /\ UNCHANGED <<fs, notHub>>

\* enrich_from_seed: with DataAccessor(url = target's root) as ax:
\* ax.copy_from(src_url = seed's root); mkdir and copytree may fail
EnrichFromSeed(failure) ==
    /\ hub_pc = "enrich"
    /\ LET url  == HubRootOf(hub_call.target)
           copy == CopyFrom(fs, url, HubRootOf(hub_call.seed_hub))
       IN  IF failure = "none"
           THEN /\ fs' = copy.store
                /\ hub_pc' = copy.status
                /\ hub_raised' = copy.error
           ELSE /\ fs' = fs
                /\ hub_pc' = "copy failed"
                /\ hub_raised' = RaisedInScope(url, "copy", failure)
    /\ UNCHANGED <<hub_call, fs_before, nb_ops, notHub>>

HubNext ==
    \/ \E self \in Hubs, seed_hub \in Hubs, failure \in HubFailures :
          PopulateRemove(self, seed_hub, failure)
    \/ \E self \in Hubs, folder \in SnapshotFolders, failure \in HubFailures :
          SnapshotRemove(self, folder, failure)
    \/ \E self \in Hubs, seed_hub \in Hubs : EnrichCall(self, seed_hub)
    \/ \E failure \in HubFailures : EnrichFromSeed(failure)

SpecHub == HubInit /\ [][HubNext]_vars

-----------------------------------------------------------------------------
(* Properties of the hub operations *)

HubReturned(op) == hub_pc = "returned" /\ hub_call.op = op

\* C4: create_snapshot leaves the content under the hub's root unchanged,
\* and afterwards the content under the snapshot handle's root equals the
\* hub's content as it was before the call (whatever was at the snapshot
\* root before is gone), for every snapshot_root_folder.
C4_SnapshotNonMutation ==
    HubReturned("snapshot") =>
        LET before == Content(fs_before, HubRootOf(hub_call.self))
        IN  /\ Content(fs, HubRootOf(hub_call.self)) = before
            /\ Content(fs, HubRootOf(hub_call.target)) = before

\* C5: after populate_from_seed(seed) returns, the content under self's
\* root equals the seed's content as it was when the call started, for
\* every pair of hubs.
C5_PopulateCopiesSeed ==
    HubReturned("populate") =>
        Content(fs, HubRootOf(hub_call.self))
            = Content(fs_before, HubRootOf(hub_call.seed_hub))

\* C6: after enrich_from_seed(seed) returns, every path of the seed holds
\* the seed's content in self, every other path of self holds what it held
\* before, the seed's content is unchanged, and enriching once more from the
\* same seed changes nothing.
C6_EnrichOverlay ==
    HubReturned("enrich") =>
        LET self_root   == HubRootOf(hub_call.self)
            seed_root   == HubRootOf(hub_call.seed_hub)
            seed_before == Content(fs_before, seed_root)
            self_before == Content(fs_before, self_root)
            self_after  == Content(fs, self_root)
            again       == CopyFrom(fs, self_root, seed_root)
        IN  /\ DOMAIN self_after = DOMAIN self_before \cup DOMAIN seed_before
            /\ \A rel \in DOMAIN seed_before : self_after[rel] = seed_before[rel]
            /\ \A rel \in DOMAIN self_before \ DOMAIN seed_before :
                  self_after[rel] = self_before[rel]
            /\ Content(fs, seed_root) = seed_before
            /\ again.status = "returned"
            /\ again.store = fs

C6_Witness ==
    /\ HubReturned("enrich")
    /\ LET seed_before == Content(fs_before, HubRootOf(hub_call.seed_hub))
           self_before == Content(fs_before, HubRootOf(hub_call.self))
       IN  /\ \E rel \in DOMAIN seed_before \cap DOMAIN self_before :
                 seed_before[rel] # self_before[rel]
           /\ DOMAIN seed_before \ DOMAIN self_before # {}
           /\ DOMAIN self_before \ DOMAIN seed_before # {}

-----------------------------------------------------------------------------
(* DataFrameDataSetContent.filter on its own *)

MaxRows == 2

MaxConstraints == 2

MaxCalls == 2

CellValues == {"x", "y"}

ColumnLists == {<<"k">>, <<"k", "v">>}

FilterFields == {"k", "v"}

\* the DataFrames with the given columns and n rows, indexed 0..n-1
DataFrames(columns, n) ==
    {[columns |-> columns,
      rows    |-> [i \in 1..n |-> [idx |-> i - 1, val |-> cells[i]]]] :
        cells \in [1..n -> [Range(columns) -> CellValues]]}

InputDataFrames ==
    UNION {DataFrames(columns, n) : columns \in ColumnLists, n \in 0..MaxRows}

Constraints ==
    {AnyOfFilter(field, {value}) : field \in FilterFields, value \in CellValues}

\* SliceDefinition.filters_to_apply
SliceDefinitions == UNION {[1..n -> Constraints] : n \in 0..MaxConstraints}

ContentInit ==
    /\ first_df \in InputDataFrames
    /\ contents = <<first_df>>
    /\ slice_def \in SliceDefinitions
    /\ filter_calls = <<>>
    /\ fs = <<>>
    /\ ProjIdle
    /\ HubIdle
    /\ AccIdle
    /\ SamplerIdle
    /\ HandleIdle
    /\ ParserIdle

\* contents[receiver].filter(slice_def)
Filter(receiver) ==
    /\ Len(filter_calls) < MaxCalls
    /\ LET call   == ContentFilter(contents[receiver], slice_def)
           after  == [contents EXCEPT ![receiver] = call.receiver_df]
           result == IF call.is_new THEN Len(contents) + 1 ELSE receiver
       IN  /\ contents' = IF call.is_new THEN Append(after, call.result_df) ELSE after
           /\ filter_calls' = Append(filter_calls,
                                     [receiver |-> receiver, result |-> result,
                                      receiver_df |-> contents[receiver]])
    /\ UNCHANGED <<slice_def, first_df, notContent>>

ContentNext == \E receiver \in 1..Len(contents) : Filter(receiver)

SpecContent == ContentInit /\ [][ContentNext]_vars

-----------------------------------------------------------------------------
(* Properties of DataFrameDataSetContent.filter *)

\* C7: C.filter(S) returns a new content object and leaves C's table as it
\* was, and filtering the result with S again gives the same rows and columns.
C7_FilterPureIdempotent ==
    \A n \in 1..Len(filter_calls) :
        LET call == filter_calls[n]
        IN  /\ call.result # call.receiver
            /\ contents[call.receiver] = call.receiver_df
            /\ contents[1] = first_df
            /\ (\E m \in 1..Len(filter_calls) : filter_calls[m].result = call.receiver)
                  => contents[call.result] = call.receiver_df

C7_Witness ==
    /\ Len(filter_calls) = 2
    /\ filter_calls[2].receiver = filter_calls[1].result
    /\ Len(slice_def) = 2
    /\ NbRows(contents[2]) = 1
    /\ NbRows(contents[1]) = 2

\* the row satisfies every constraint whose field is a column of df
SatisfiesSlice(row, df, filters) ==
    \A i \in 1..Len(filters) :
        filters[i].field \in Range(df.columns)
            => row.val[filters[i].field] \in filters[i].allowed_values

\* C8: filter returns exactly the rows of the receiver that satisfy every
\* constraint whose field is a column; a constraint on a field that is no
\* column removes nothing; the columns are the receiver's and the rows are
\* rows of the receiver.
C8_FilterExactRows ==
    \A n \in 1..Len(filter_calls) :
        LET call     == filter_calls[n]
            receiver == call.receiver_df
            result   == contents[call.result]
        IN  /\ result.columns = receiver.columns
            /\ result.rows = SelectSeq(receiver.rows,
                                LAMBDA row : SatisfiesSlice(row, receiver, slice_def))
            /\ Range(result.rows) \subseteq Range(receiver.rows)

C8_Witness ==
    /\ Len(filter_calls) = 1
    /\ first_df.columns = <<"k">>
    /\ \E i \in 1..Len(slice_def) : slice_def[i].field = "v"
    /\ \E i \in 1..Len(slice_def) : slice_def[i].field = "k"
    /\ NbRows(first_df) = 2
    /\ NbRows(contents[2]) = 1

-----------------------------------------------------------------------------
(* DataAccessor.retrieve on its own *)

MaxAlternatives == 2

\* the urls given to the accessor: d.xlsx, d.csv and d
AccessorUrls == {<<"d">> \o XLSX, <<"d">> \o CSV, <<"d">>}

\* the worksheet named sheet_name, recognisable by its cell
SheetNamed(sheet_name) == [columns |-> <<"k">>, cells |-> << [k |-> sheet_name] >>]

\* a file in the lightweight format, holding data_df when it can be parsed
CsvFile(parseable, data_df) ==
    [kind |-> "csv", parseable |-> parseable, data_df |-> data_df]

CsvDataFrame(tag) ==
    [columns |-> <<"k">>, rows |-> << [idx |-> 0, val |-> [k |-> tag]] >>]

CsvOptions(tag) ==
    {NoFile, CsvFile(TRUE, CsvDataFrame(tag)), CsvFile(FALSE, None)}

WorkbookOptions ==
    {NoFile} \cup {Workbook([n \in names |-> SheetNamed(n)]) :
                      names \in SUBSET {"Sheet1", "A", "B"}}

\* the store that holds, of the given files, those that exist
StoreWith(files) ==
    [u \in {v \in DOMAIN files : files[v] # NoFile} |-> files[u]]

\* the stores for an accessor of url: a workbook or nothing at url (a
\* lightweight file or nothing when url is itself the lightweight name), and
\* lightweight files or nothing at d.csv and d..csv
AccessorStores(url) ==
    {StoreWith((url :> at_url) @@ (<<"d">> \o CSV :> csv) @@
               (<<"d", ".">> \o CSV :> dotted)) :
        at_url \in IF EndsWith(url, CSV) THEN {NoFile} ELSE WorkbookOptions,
        csv    \in CsvOptions("csv"),
        dotted \in {NoFile, CsvFile(TRUE, CsvDataFrame("dotted"))}}

AlternativeLists == UNION {[1..n -> {"B", "C"}] : n \in 0..MaxAlternatives}

AccInit ==
    /\ \E url \in AccessorUrls :
          /\ fs \in AccessorStores(url)
          /\ accessor \in {DataAccessor(url, subpath) : subpath \in {NoSubpath, "A"}}
    /\ acc_args \in [alternative_subpaths : AlternativeLists,
                     fail_if_not_found : BOOLEAN]
    /\ acc_pc = "ready"
    /\ acc_result = None
    /\ nb_acc_actions = 0
    /\ scope_outcome = None
    /\ ProjIdle
    /\ HubIdle
    /\ ContentIdle
    /\ SamplerIdle
    /\ HandleIdle
    /\ ParserIdle

\* accessor.retrieve(alternative_subpaths, fail_if_not_found)
RetrieveCall ==
    /\ acc_pc = "ready"
    /\ accessor' = [accessor EXCEPT !.action = "retrieve"]
    /\ acc_result' = Retrieve(fs, accessor.url, accessor.subpath,
                              acc_args.alternative_subpaths,
                              acc_args.fail_if_not_found)
    /\ acc_pc' = "done"
    /\ UNCHANGED <<fs, acc_args, nb_acc_actions, scope_outcome, notAcc>>

AccNext == RetrieveCall

SpecAccessor == AccInit /\ [][AccNext]_vars

-----------------------------------------------------------------------------
(* Properties of DataAccessor.retrieve *)

\* the lightweight counterpart of the accessor's url exists and can be parsed
LightweightUsable ==
    /\ UrlToCsv(accessor.url) \in DOMAIN fs
    /\ fs[UrlToCsv(accessor.url)].kind = "csv"
    /\ fs[UrlToCsv(accessor.url)].parseable

AccSheetsToTry == SheetsToTry(accessor.subpath, acc_args.alternative_subpaths)

\* the positions of the sections to try that the workbook at url holds
SectionsFound ==
    IF accessor.url \in DOMAIN fs /\ fs[accessor.url].kind = "xlsx"
    THEN {k \in 1..Len(AccSheetsToTry) :
             AccSheetsToTry[k] \in DOMAIN fs[accessor.url].sheets}
    ELSE {}

ExcelLoads == SelectSeq(acc_result.loads, LAMBDA l : l.op = "load_excel")

\* C9: retrieve returns the lightweight content whenever the lightweight
\* counterpart exists and is parseable, without consulting the workbook;
\* otherwise it returns the first section, in the order of the sections to
\* try, that the workbook holds, and reads no later section.
C9_LightweightFirstThenSections ==
    acc_pc = "done" =>
        IF LightweightUsable
        THEN /\ acc_result.status = "returned"
             /\ acc_result.value = fs[UrlToCsv(accessor.url)].data_df
             /\ ExcelLoads = <<>>
        ELSE SectionsFound # {} =>
                LET first == CHOOSE k \in SectionsFound :
                                 \A m \in SectionsFound : k <= m
                IN  /\ acc_result.status = "returned"
                    /\ acc_result.value =
                           DropSpuriousColumns(ReadExcelSheet(
                               fs[accessor.url].sheets[AccSheetsToTry[first]]))
                    /\ [k \in 1..Len(ExcelLoads) |-> ExcelLoads[k].sheet]
                           = SubSeq(AccSheetsToTry, 1, first)

\* neither the lightweight counterpart nor any section to try is found
NothingFound ==
    /\ ~PathExists(fs, UrlToCsv(accessor.url))
    /\ SectionsFound = {}
    /\ accessor.url \in DOMAIN fs => fs[accessor.url].kind = "xlsx"

\* C10: when nothing is found, retrieve returns None if fail_if_not_found
\* is false, and if it is true raises a not-found error that names the url
\* and every subpath tried, also when the url does not exist; it never
\* returns None when fail_if_not_found is true.
C10_NotFoundOutcome ==
    acc_pc = "done" =>
        /\ (NothingFound /\ ~acc_args.fail_if_not_found) =>
              (acc_result.status = "returned" /\ acc_result.value = None)
        /\ (NothingFound /\ acc_args.fail_if_not_found) =>
              /\ acc_result.status = "raised"
              /\ acc_result.error.type = "ValueError"
              /\ acc_result.error.url = accessor.url
              /\ acc_result.error.sheets = AccSheetsToTry
        /\ acc_args.fail_if_not_found =>
              ~(acc_result.status = "returned" /\ acc_result.value = None)

\* C10, amended: when nothing is found, retrieve returns None if
\* fail_if_not_found is false; if it is true it raises a not-found error
\* that names the url, and that names every subpath tried when the url
\* exists and no subpath when the url does not exist; it never returns None
\* when fail_if_not_found is true.
C10_NotFoundNamesUrl ==
    acc_pc = "done" =>
        /\ (NothingFound /\ ~acc_args.fail_if_not_found) =>
              (acc_result.status = "returned" /\ acc_result.value = None)
        /\ (NothingFound /\ acc_args.fail_if_not_found) =>
              /\ acc_result.status = "raised"
              /\ acc_result.error.type = "ValueError"
              /\ acc_result.error.url = accessor.url
              /\ acc_result.error.sheets =
                     IF PathExists(fs, accessor.url) THEN AccSheetsToTry ELSE <<>>
        /\ acc_args.fail_if_not_found =>
              ~(acc_result.status = "returned" /\ acc_result.value = None)

\* a workbook that holds none of the two or more sections tried, with
\* fail_if_not_found true: the error names all of them
C10_Witness ==
    /\ acc_pc = "done"
    /\ NothingFound
    /\ acc_args.fail_if_not_found
    /\ PathExists(fs, accessor.url)
    /\ Len(AccSheetsToTry) >= 2
    /\ acc_result.status = "raised"
    /\ acc_result.error.sheets = AccSheetsToTry

-----------------------------------------------------------------------------
(* The lightweight counterpart that fails to parse *)

\* the lightweight counterpart exists and loading it raises
LightweightFailsToParse ==
    /\ PathExists(fs, UrlToCsv(accessor.url))
    /\ LoadCsv(fs, UrlToCsv(accessor.url)).status = "raised"

\* the content of the first section to try that the workbook holds
FirstSectionFound ==
    LET first == CHOOSE k \in SectionsFound : \A m \in SectionsFound : k <= m
    IN  DropSpuriousColumns(ReadExcelSheet(
            fs[accessor.url].sheets[AccSheetsToTry[first]]))

\* C11: when the lightweight counterpart exists but fails to parse, retrieve
\* with fail_if_not_found false falls through to the workbook, and with
\* fail_if_not_found true raises at once, about the lightweight file, without
\* attempting the workbook.
C11_ParseFailurePolicy ==
    (acc_pc = "done" /\ LightweightFailsToParse) =>
        IF acc_args.fail_if_not_found
        THEN /\ acc_result.status = "raised"
             /\ acc_result.error.text = "Unable to retrieve"
             /\ ExcelLoads = <<>>
        ELSE SectionsFound # {} =>
                (acc_result.status = "returned" /\ acc_result.value = FirstSectionFound)

\* C11, amended: when the lightweight counterpart exists but fails to parse,
\* retrieve falls through to the workbook whatever fail_if_not_found is: it
\* raises no error about the lightweight file, it reads the workbook when
\* the url exists, and it returns the first section found when there is one.
C11_ParseFailureFallsThrough ==
    (acc_pc = "done" /\ LightweightFailsToParse) =>
        /\ acc_result.loads # <<>> /\ acc_result.loads[1].op = "load_csv"
        /\ acc_result.status = "raised" => acc_result.error.text # "Unable to retrieve"
        /\ PathExists(fs, accessor.url) => ExcelLoads # <<>>
        /\ SectionsFound # {} =>
              (acc_result.status = "returned" /\ acc_result.value = FirstSectionFound)

\* an unparseable lightweight file beside a workbook that holds a section
\* tried, retrieved with fail_if_not_found true
C11_Witness ==
    /\ acc_pc = "done"
    /\ LightweightFailsToParse
    /\ ~fs[UrlToCsv(accessor.url)].parseable
    /\ acc_args.fail_if_not_found
    /\ SectionsFound # {}
    /\ acc_result.status = "returned"
    /\ acc_result.value = FirstSectionFound

-----------------------------------------------------------------------------
(* The DataAccessor scope: with DataAccessor(url, subpath) as ax: actions   *)

MaxActions == 2

\* the exceptions the operating system may raise in an action that touches
\* storage, "none" when it raises nothing
Failures == {"none", "PermissionError", "OSError", "KeyboardInterrupt"}

\* what a method of the accessor did: the method, and its result
Acted(op, result) ==
    [op |-> op, status |-> result.status, value |-> result.value,
     error |-> result.error]

ScopeFolder == <<"p">>

ScopeFile == <<"p", "/", "d">> \o XLSX

SeedFolder == <<"q">>

SeedFile == <<"q", "/", "d">> \o XLSX

ScopeUrls == {ScopeFolder, ScopeFile}

ScopeStores ==
    {StoreWith((ScopeFile :> in_p) @@ (SeedFile :> in_q)) :
        in_p \in {NoFile, Workbook("A" :> SheetNamed("A"))},
        in_q \in {NoFile, Workbook("Sheet1" :> SheetNamed("Sheet1"))}}

\* __init__, then __enter__, which returns the accessor itself
ScopeInit ==
    /\ fs \in ScopeStores
    /\ accessor \in {DataAccessor(url, subpath) :
                        url \in ScopeUrls, subpath \in {NoSubpath, "A"}}
    /\ acc_args = None
    /\ acc_pc = "entered"
    /\ acc_result = None
    /\ nb_acc_actions = 0
    /\ scope_outcome = None
    /\ ProjIdle
    /\ HubIdle
    /\ ContentIdle
    /\ SamplerIdle
    /\ HandleIdle
    /\ ParserIdle

\* the with block is still running and may call one more action
InBlock ==
    /\ acc_pc = "entered"
    /\ nb_acc_actions < MaxActions
    /\ acc_result # None => acc_result.status = "returned"

\* ax.retrieve(alternative_subpaths, fail_if_not_found): storage is read,
\* and may fail, only when the url exists
ScopedRetrieve(alternative_subpaths, fail_if_not_found, failure) ==
    /\ InBlock
    /\ failure # "none" => PathExists(fs, accessor.url)
    /\ accessor' = [accessor EXCEPT !.action = "retrieve"]
    /\ acc_args' = [alternative_subpaths |-> alternative_subpaths,
                    fail_if_not_found |-> fail_if_not_found]
    /\ acc_result' =
          Acted("retrieve",
                IF failure # "none"
                THEN Raised(Failure(failure, accessor.url), <<>>)
                ELSE Retrieve(fs, accessor.url, accessor.subpath,
                              alternative_subpaths, fail_if_not_found))
    /\ nb_acc_actions' = nb_acc_actions + 1
    /\ UNCHANGED <<fs, acc_pc, scope_outcome, notAcc>>

\* ax.remove(): rmtree runs, and may fail, only when the url exists; rmtree
\* of a file is a NotADirectoryError; a failing rmtree has removed some of
\* the files
ScopedRemove(failure) ==
    /\ InBlock
    /\ failure # "none" => PathExists(fs, accessor.url)
    /\ accessor' = [accessor EXCEPT !.action = "remove"]
    /\ \/ /\ failure # "none"
          /\ \E gone \in SUBSET {u \in DOMAIN fs : IsUnder(u, accessor.url)} :
                fs' = [u \in DOMAIN fs \ gone |-> fs[u]]
          /\ acc_result' = Acted("remove", Raised(Failure(failure, accessor.url), <<>>))
       \/ /\ failure = "none"
          /\ accessor.url \in DOMAIN fs
          /\ fs' = fs
          /\ acc_result' = Acted("remove",
                Raised([type |-> "NotADirectoryError", text |-> "Not a directory",
                        url |-> accessor.url, sheets |-> <<>>], <<>>))
       \/ /\ failure = "none"
          /\ accessor.url \notin DOMAIN fs
          /\ fs' = Remove(fs, accessor.url)
          /\ acc_result' = Acted("remove", Returned(None, <<>>))
    /\ nb_acc_actions' = nb_acc_actions + 1
    /\ UNCHANGED <<acc_args, acc_pc, scope_outcome, notAcc>>

\* ax.copy_from(src_url): mkdir and copytree may fail; copytree into a url
\* that is a file is a FileExistsError
ScopedCopyFrom(src_url, failure) ==
    /\ InBlock
    /\ accessor' = [accessor EXCEPT !.action = "copy"]
    /\ LET copy == CopyFrom(fs, accessor.url, src_url)
       IN  IF failure # "none"
           THEN /\ fs' = fs
                /\ acc_result' = Acted("copy_from",
                                       Raised(Failure(failure, accessor.url), <<>>))
           ELSE IF accessor.url \in DOMAIN fs
           THEN /\ fs' = fs
                /\ acc_result' = Acted("copy_from",
                      Raised([type |-> "FileExistsError", text |-> "File exists",
                              url |-> accessor.url, sheets |-> <<>>], <<>>))
           ELSE /\ fs' = copy.store
                /\ acc_result' = Acted("copy_from",
                      IF copy.status = "raised" THEN Raised(copy.error, <<>>)
                      ELSE Returned(None, <<>>))
    /\ nb_acc_actions' = nb_acc_actions + 1
    /\ UNCHANGED <<acc_args, acc_pc, scope_outcome, notAcc>>

\* ax.persist(data_df): ACTION is not assigned; mkdir and to_excel may fail;
\* to_excel finds no engine for a url without the workbook extension
ScopedPersist(data_df, failure) ==
    /\ InBlock
    /\ IF failure # "none"
       THEN /\ fs' = fs
            /\ acc_result' = Acted("persist",
                                   Raised(Failure(failure, accessor.url), <<>>))
       ELSE IF ~EndsWith(accessor.url, XLSX)
       THEN /\ fs' = fs
            /\ acc_result' = Acted("persist",
                  Raised([type |-> "ValueError", text |-> "No engine for filetype",
                          url |-> accessor.url, sheets |-> <<>>], <<>>))
       ELSE /\ fs' = Persist(fs, accessor.url, accessor.subpath, data_df)
            /\ acc_result' = Acted("persist", Returned(None, <<>>))
    /\ nb_acc_actions' = nb_acc_actions + 1
    /\ UNCHANGED <<accessor, acc_args, acc_pc, scope_outcome, notAcc>>

\* the with statement ends: __exit__ is called with the exception of the
\* block, or with None; what __exit__ raises replaces the exception, and
\* __exit__ returning None lets the exception of the block go on
ScopeExit ==
    /\ acc_pc = "entered"
    /\ acc_result # None
    /\ LET exc_value == acc_result.error
           exit      == Exit(accessor, exc_value)
       IN  scope_outcome' =
              IF exit.raises THEN [status |-> "raised", value |-> None, error |-> exit.error]
              ELSE [status |-> acc_result.status, value |-> acc_result.value,
                    error |-> exc_value]
    /\ acc_pc' = "exited"
    /\ UNCHANGED <<fs, accessor, acc_args, acc_result, nb_acc_actions, notAcc>>

ScopeNext ==
    \/ \E alternative_subpaths \in {<<>>, <<"B">>}, fail_if_not_found \in BOOLEAN,
          failure \in Failures :
          ScopedRetrieve(alternative_subpaths, fail_if_not_found, failure)
    \/ \E failure \in Failures : ScopedRemove(failure)
    \/ \E src_url \in {SeedFolder, ScopeFolder}, failure \in Failures :
          ScopedCopyFrom(src_url, failure)
    \/ \E failure \in Failures : ScopedPersist(CsvDataFrame("new"), failure)
    \/ ScopeExit

SpecScope == ScopeInit /\ [][ScopeNext]_vars

-----------------------------------------------------------------------------
(* Properties of the DataAccessor scope *)

\* the name the error message gives the action of a method
ActionName(op) == IF op = "copy_from" THEN "copy" ELSE op

\* the with statement has ended and its last action raised a permission error
PermissionFailure ==
    /\ acc_pc = "exited"
    /\ acc_result.status = "raised"
    /\ acc_result.error.type = "PermissionError"

\* C12: a permission-class failure raised by retrieve, remove, copy_from or
\* persist inside the scope reaches the caller as a descriptive error that
\* names the accessor's url and the action in progress, also when the
\* action is the first one on a fresh accessor.
C12_PermissionFailureTranslated ==
    PermissionFailure =>
        /\ scope_outcome.status = "raised"
        /\ scope_outcome.error.type = "ValueError"
        /\ scope_outcome.error.text = "Please close file(s)"
        /\ scope_outcome.error.url = accessor.url
        /\ scope_outcome.error.action = ActionName(acc_result.op)

\* C13: on exit from the scope an exception that is not permission-class
\* reaches the caller as the same exception, and an exit without exception
\* raises nothing and gives the caller the action's result.
C13_OtherOutcomesUnchanged ==
    (acc_pc = "exited" /\ ~PermissionFailure) =>
        /\ scope_outcome.status = acc_result.status
        /\ scope_outcome.value = acc_result.value
        /\ scope_outcome.error = acc_result.error

\* a scope left by an exception that is not permission-class, after an
\* action that returned
C13_Witness ==
    /\ acc_pc = "exited"
    /\ nb_acc_actions = 2
    /\ acc_result.status = "raised"
    /\ acc_result.error.type \in {"OSError", "ValueError", "FileExistsError"}
    /\ scope_outcome.status = "raised"
    /\ scope_outcome.error = acc_result.error

-----------------------------------------------------------------------------
(* Properties of the phases of DataBaseProjector.project *)

\* every input hub has finished its pass over the datasets in scope
LoadComplete ==
    \A k \in 1..Len(input_db) : input_db[k].name \in DOMAIN skipped_datasets

\* every output hub has finished its pass over the loaded datasets
ProjectComplete ==
    /\ LoadComplete
    /\ pc \notin {"load", "project"}
    /\ hub_pos > Len(output_db)

\* C14: no dataset is persisted before every load attempt has finished and
\* every projection has been computed: storage changes only in the Save
\* phase, after both, and a run that raises during Load or Project has
\* persisted nothing.
C14_PhasesSequential ==
    /\ [](persist_log # <<>> => ProjectComplete)
    /\ []((pc = "raised" /\ ~ProjectComplete) => persist_log = <<>>)
    /\ [][(fs' # fs \/ persist_log' # persist_log) =>
             (pc = "save" /\ ProjectComplete /\ persist_log' # persist_log)]_vars

\* a dataset has been persisted, with two input hubs loaded and two output
\* hubs projected
C14_Witness ==
    /\ pc = "save"
    /\ persist_log # <<>>
    /\ Len(input_db) >= 2
    /\ Len(output_db) >= 2
    /\ Len(projected_keys) >= 2

\* the Load loop is at hub k, dataset j
LoadingAt(k, j) == pc = "load" /\ hub_pos = k /\ item_pos = j

\* no file and no directory lies at the url of dataset j in input hub k
MissingIn(k, j) ==
    LET full_url == InputUrl(<<k, j>>)
    IN  full_url \notin DOMAIN fs /\ \A u \in DOMAIN fs : ~IsUnder(u, full_url)

\* C15: in the Load phase a dataset whose full url does not exist in the
\* hub is recorded as skipped by that hub and raises no error; it adds no
\* input statistic, and the remaining datasets and hubs are processed:
\* after the Load phase every pair has been either skipped or loaded.
C15_MissingDatasetSkipped ==
    /\ [][\A k \in 1..NumHubs, j \in 1..Len(DatasetsInScope) :
             (LoadingAt(k, j) /\ MissingIn(k, j)) =>
                 /\ DatasetsInScope[j].path_within_hub \in skipped_by_hub'
                 /\ pc' = "load" /\ raised' = None
                 /\ hub_pos' = k /\ item_pos' = j + 1
                 /\ UNCHANGED <<stats_input_relative_paths, stats_input_nb_rows,
                                stats_input_nb_columns, source_data_dict, nb_loaded>>]_vars
    /\ [](LoadFinished =>
             /\ \A k \in 1..NumHubs, j \in 1..Len(DatasetsInScope) :
                   MissingIn(k, j) =>
                      DatasetsInScope[j].path_within_hub
                          \in skipped_datasets[InputHubs[k].name]
             /\ Len(stats_input_relative_paths) =
                   Cardinality({p \in HubDatasetPairs : ~MissingIn(p[1], p[2])}))

\* the Load phase is over, the first hub lacked a dataset that a later hub
\* held and loaded
C15_Witness ==
    /\ LoadFinished
    /\ MissingIn(1, 1)
    /\ ~MissingIn(1, 2)
    /\ ~MissingIn(2, 1)
    /\ DatasetsInScope[1].path_within_hub \in skipped_datasets[InputHubs[1].name]
    /\ Len(stats_input_relative_paths) >= 2

\* the fragments of dataset j in hub k that retrieve returns non-null, in
\* subpath order
Fragments(k, j) ==
    LET subpath_l == DatasetsInScope[j].subpaths
        retrieved == [n \in 1..Len(subpath_l) |->
                         Retrieve(fs, InputUrl(<<k, j>>), subpath_l[n], <<>>, FALSE)]
        found     == SelectSeq(retrieved, LAMBDA r : r.value # None)
    IN  [n \in 1..Len(found) |-> found[n].value]

RECURSIVE SumNbRows(_)
SumNbRows(df_list) ==
    IF df_list = <<>> THEN 0
    ELSE NbRows(Head(df_list)) + SumNbRows(Tail(df_list))

UnionColumns(df_list) == UNION {Range(df_list[n].columns) : n \in 1..Len(df_list)}

\* C16: when the Load phase loads a dataset, the loaded table has the rows
\* of every fragment retrieved non-null, in subpath order: its row count is
\* the sum of the fragments' row counts, its columns are the union of the
\* fragments' columns, and the input statistic recorded carries those counts.
C16_SubpathReassembly ==
    [][\A k \in 1..NumHubs, j \in 1..Len(DatasetsInScope) :
          (LoadingAt(k, j) /\ nb_loaded' = nb_loaded + 1) =>
              LET df_list      == Fragments(k, j)
                  relative_url == DatasetsInScope[j].path_within_hub
                  data_df      == source_data_dict'[relative_url].data_df
                  n            == Len(stats_input_relative_paths')
              IN  /\ NbRows(data_df) = SumNbRows(df_list)
                  /\ Range(data_df.columns) = UnionColumns(df_list)
                  /\ [i \in 1..NbRows(data_df) |-> data_df.rows[i].idx]
                         = [i \in 1..Len(ConcatRows(df_list)) |->
                               ConcatRows(df_list)[i].idx]
                  /\ n = Len(stats_input_relative_paths) + 1
                  /\ stats_input_relative_paths'[n] = relative_url
                  /\ stats_input_nb_rows'[n] = SumNbRows(df_list)
                  /\ stats_input_nb_columns'[n] = Cardinality(UnionColumns(df_list))]_vars

\* a dataset has been loaded from two fragments whose columns differ
C16_Witness ==
    /\ pc = "load"
    /\ stats_input_relative_paths # <<>>
    /\ \E k \in 1..NumHubs :
          /\ source_data_dict # <<>>
          /\ DatasetsInScope[1].path_within_hub \in DOMAIN source_data_dict
          /\ source_data_dict[DatasetsInScope[1].path_within_hub].hub_name
                = InputHubs[k].name
          /\ Len(Fragments(k, 1)) = 2
          /\ Fragments(k, 1)[1].columns # Fragments(k, 1)[2].columns
          /\ NbRows(source_data_dict[DatasetsInScope[1].path_within_hub].data_df) = 2

-----------------------------------------------------------------------------
(* The samplers.  A cell value is its Python type and its str() text, so   *)
(* that the string "123" and the number 123 differ.                        *)

MaxChain == 2

MaxSampleCalls == 2

RngModulus == 4

StrValue(text) == [type |-> "str", text |-> text]

IntValue(text) == [type |-> "int", text |-> text]

\* str(elt)
StrOf(elt) == elt.text

\* tag in val, for two strings
IsSubstring(tag, val) ==
    \E i \in 0..(Len(val) - Len(tag)) : SubSeq(val, i + 1, i + Len(tag)) = tag

\* a match that converts the value of the row to a string first
IsAMatchStringified(row, column, matching_tag_list) ==
    \E n \in 1..Len(matching_tag_list) :
        IsSubstring(StrOf(matching_tag_list[n]), StrOf(row.val[column]))

\* DataFrameUtils.slice: _is_a_match
IsAMatch(row, column, matching_tag_list) ==
    \E n \in 1..Len(matching_tag_list) :
        /\ row.val[column].type = "str"
        /\ IsSubstring(StrOf(matching_tag_list[n]), row.val[column].text)

\* DataFrameUtils.slice
Slice(df, column, matching_tag_list) ==
    IF NbRows(df) = 0 THEN df
    ELSE [df EXCEPT !.rows =
             SelectSeq(df.rows, LAMBDA row : IsAMatch(row, column, matching_tag_list))]

\* DataFrame.reset_index(): the index labels become a column, called
\* "index", or "level_0" when a column "index" exists, and the rows are
\* numbered from 0
ResetIndex(input_df) ==
    LET name == IF "index" \in Range(input_df.columns) THEN "level_0" ELSE "index"
    IN  [columns |-> <<name>> \o input_df.columns,
         rows    |-> [i \in 1..NbRows(input_df) |->
                        [idx |-> i - 1,
                         val |-> (name :> input_df.rows[i].idx) @@ input_df.rows[i].val]]]

\* DataFrame.drop(column, axis=1)
DropColumn(df, column) ==
    [columns |-> SelectSeq(df.columns, LAMBDA c : c # column),
     rows    |-> [i \in 1..NbRows(df) |->
                    [idx |-> df.rows[i].idx,
                     val |-> [c \in DOMAIN df.rows[i].val \ {column} |->
                                df.rows[i].val[c]]]]]

\* DataFrameUtils.re_index
ReIndex(input_df) ==
    LET output_df == ResetIndex(input_df)
    IN  IF "index" \in Range(output_df.columns)
        THEN DropColumn(output_df, "index")
        ELSE output_df

\* full_df[:sample_size], for a sample_size that is not negative
FirstRows(full_df, sample_size) ==
    [full_df EXCEPT !.rows =
        SubSeq(full_df.rows, 1,
               IF sample_size < NbRows(full_df) THEN sample_size ELSE NbRows(full_df))]

\* the seed argument while it is None
NoSeed == -1

\* a generator that random.seed leaves as it was
SeedIgnored(rng, seed) == rng

\* random.seed(seed), called only when the seed is not None
Seed(rng, seed) == IF seed = NoSeed THEN rng ELSE seed % RngModulus

\* one step of the generator
NextRandom(rng) == (rng + 3) % RngModulus

\* random.sample(population, k): k draws without replacement, each decided
\* by the state of the generator
RECURSIVE RandomSample(_, _, _)
RandomSample(rng, population, k) ==
    IF k = 0 THEN [picked |-> <<>>, rng |-> rng]
    ELSE LET j    == (rng % Len(population)) + 1
             rest == SubSeq(population, 1, j - 1)
                        \o SubSeq(population, j + 1, Len(population))
             next == RandomSample(NextRandom(rng), rest, k - 1)
         IN  [picked |-> <<population[j]>> \o next.picked, rng |-> next.rng]

\* int(percent * sample_size), percent being num / den
SampleCount(percent, sample_size) == (percent.num * sample_size) \div percent.den

\* full_df.filter(items=sampled_index, axis=0): the rows labelled by the
\* items, in the order of the items
FilterItems(full_df, items) ==
    [full_df EXCEPT !.rows =
        [n \in 1..Len(items) |->
            full_df.rows[CHOOSE i \in 1..NbRows(full_df) :
                            full_df.rows[i].idx = items[n]]]]

\* a mapping from key to DataFrame: a Python dict
Mapping(keys, data) == [keys |-> keys, data |-> data]

Sampled(value, rng) == [status |-> "returned", value |-> value, rng |-> rng]

\* RandomSampler.generate_sample: the loop over raw_data_dict.keys(), from
\* position n
RECURSIVE RandomLoop(_, _, _, _)
RandomLoop(raw, percent, n, rng) ==
    IF n > Len(raw.keys) THEN [data |-> <<>>, rng |-> rng]
    ELSE LET full_df       == raw.data[raw.keys[n]]
             sample_size   == NbRows(full_df)
             index         == [i \in 1..sample_size |-> full_df.rows[i].idx]
             sampled       == RandomSample(rng, index, SampleCount(percent, sample_size))
             sample_df     == ReIndex(FilterItems(full_df, sampled.picked))
             rest          == RandomLoop(raw, percent, n + 1, sampled.rng)
         IN  [data |-> (raw.keys[n] :> sample_df) @@ rest.data, rng |-> rest.rng]

FirstFoundSampler(sample_size) == [kind |-> "FirstFound", sample_size |-> sample_size]

FilterSampler(column, matching_tag_list) ==
    [kind |-> "Filter", column |-> column, matching_tag_list |-> matching_tag_list]

RandomSampler(percent, seed) == [kind |-> "Random", percent |-> percent, seed |-> seed]

ChainSampler(sampler_list) == [kind |-> "Chain", sampler_list |-> sampler_list]

\* generate_sample of FirstFoundSampler, FilterSampler and RandomSampler
GenerateOne(self, raw, rng) ==
    IF self.kind = "FirstFound"
    THEN Sampled(Mapping(raw.keys,
                         [key \in Range(raw.keys) |->
                             FirstRows(raw.data[key], self.sample_size)]), rng)
    ELSE IF self.kind = "Filter"
    THEN Sampled(Mapping(raw.keys,
                         [key \in Range(raw.keys) |->
                             IF self.column \in Range(raw.data[key].columns)
                             THEN ReIndex(Slice(raw.data[key], self.column,
                                                self.matching_tag_list))
                             ELSE raw.data[key]]), rng)
    ELSE LET looped == RandomLoop(raw, self.percent, 1, Seed(rng, self.seed))
         IN  Sampled(Mapping(raw.keys, looped.data), looped.rng)

\* ChainSampler.generate_sample: the loop over sampler_list, from position n
RECURSIVE ChainLoop(_, _, _, _)
ChainLoop(sampler_list, data_dict, n, rng) ==
    IF n > Len(sampler_list) THEN Sampled(data_dict, rng)
    ELSE LET step == GenerateOne(sampler_list[n], data_dict, rng)
         IN  ChainLoop(sampler_list, step.value, n + 1, step.rng)

\* Sampler.generate_sample
GenerateSample(self, raw, rng) ==
    IF self.kind = "Chain"
    THEN IF Len(self.sampler_list) = 0
         THEN [status |-> "raised", value |-> None, rng |-> rng]
         ELSE ChainLoop(self.sampler_list, raw, 1, rng)
    ELSE GenerateOne(self, raw, rng)

-----------------------------------------------------------------------------
(* The samplers: one sampler object, called several times on one mapping   *)

S123 == StrValue(<<"1", "2", "3">>)

I123 == IntValue(<<"1", "2", "3">>)

SX == StrValue(<<"x">>)

\* a table of one column: its rows are given as <<index label, value>>
Table(column, labelled) ==
    [columns |-> <<column>>,
     rows    |-> [i \in 1..Len(labelled) |->
                    [idx |-> labelled[i][1], val |-> (column :> labelled[i][2])]]]

\* tables with and without the column "k", with a row index that is the
\* range 0..n-1 and with one that is not
SampleTables ==
    { Table("k", <<>>),
      Table("k", << <<0, S123>> >>),
      Table("k", << <<3, I123>> >>),
      Table("k", << <<0, S123>>, <<1, SX>> >>),
      Table("k", << <<3, SX>>, <<7, S123>> >>),
      Table("k", << <<3, I123>>, <<7, SX>> >>),
      Table("v", << <<0, S123>>, <<1, SX>> >>),
      Table("v", << <<5, S123>> >>) }

SecondTables ==
    { Table("k", << <<0, SX>>, <<1, S123>> >>),
      Table("v", << <<5, S123>> >>) }

RawDataDicts ==
    {Mapping(<<"K">>, "K" :> t) : t \in SampleTables}
    \cup {Mapping(<<"K", "L">>, ("K" :> t) @@ ("L" :> u)) :
             t \in SampleTables, u \in SecondTables}

TagLists ==
    { << StrValue(<<"1", "2">>) >>,
      << IntValue(<<"1", "2">>), StrValue(<<"x">>) >> }

Percents == {[num |-> 1, den |-> 2], [num |-> 1, den |-> 1]}

BaseSamplers ==
    {FirstFoundSampler(n) : n \in 0..2}
    \cup {FilterSampler("k", tags) : tags \in TagLists}
    \cup {RandomSampler(percent, seed) : percent \in Percents, seed \in {NoSeed, 1}}

ChainElements ==
    { FirstFoundSampler(1),
      FilterSampler("k", << StrValue(<<"1", "2">>) >>),
      RandomSampler([num |-> 1, den |-> 1], 1) }

Samplers ==
    BaseSamplers
    \cup {ChainSampler(sampler_list) :
             sampler_list \in UNION {[1..n -> ChainElements] : n \in 0..MaxChain}}

SamplerInit ==
    /\ sampler \in Samplers
    /\ raw_data_dict \in RawDataDicts
    /\ rng_state \in 0..(RngModulus - 1)
    /\ sample_calls = <<>>
    /\ fs = <<>>
    /\ ProjIdle
    /\ HubIdle
    /\ ContentIdle
    /\ AccIdle
    /\ HandleIdle
    /\ ParserIdle

\* sampler.generate_sample(raw_data_dict)
GenerateSampleCall ==
    /\ Len(sample_calls) < MaxSampleCalls
    /\ LET result == GenerateSample(sampler, raw_data_dict, rng_state)
       IN  /\ sample_calls' = Append(sample_calls,
                                     [status |-> result.status, value |-> result.value])
           /\ rng_state' = result.rng
    /\ UNCHANGED <<sampler, raw_data_dict, notSampler>>

\* some other code draws from the random module
OtherRandomUse ==
    /\ Len(sample_calls) < MaxSampleCalls
    /\ rng_state' = NextRandom(rng_state)
    /\ UNCHANGED <<sampler, raw_data_dict, sample_calls, notSampler>>

SamplerNext == GenerateSampleCall \/ OtherRandomUse

SpecSampler == SamplerInit /\ [][SamplerNext]_vars

-----------------------------------------------------------------------------
(* Properties of the samplers *)

\* the calls of generate_sample that returned
ReturnedCalls == {c \in 1..Len(sample_calls) : sample_calls[c].status = "returned"}

\* the cell values of the rows of df, in row order
RowValues(df) == [i \in 1..NbRows(df) |-> df.rows[i].val]

\* C17: for every sampler and every input mapping, also with tables whose
\* row index is not a contiguous range, generate_sample returns a mapping
\* whose keys are input keys and in which each table has the columns of its
\* input table, rows of its input table, and the row index 0..n-1.
C17_SampleContract ==
    \A c \in ReturnedCalls :
        LET out == sample_calls[c].value
        IN  /\ Range(out.keys) \subseteq Range(raw_data_dict.keys)
            /\ \A key \in Range(out.keys) :
                  /\ out.data[key].columns = raw_data_dict.data[key].columns
                  /\ Range(RowValues(out.data[key]))
                        \subseteq Range(RowValues(raw_data_dict.data[key]))
                  /\ \A i \in 1..NbRows(out.data[key]) :
                        out.data[key].rows[i].idx = i - 1

\* the text of value, or of str(value), contains a tag of the list
ContainsATag(text, matching_tag_list) ==
    \E tag \in Range(matching_tag_list) : IsSubstring(tag.text, text)

\* C18: FilterSampler keeps, of each table that has the column, exactly the
\* rows whose value in the column, converted to a string, contains a tag,
\* so that the number 123 matches the tag "12"; a table without the column
\* is returned unchanged.
C18_FilterKeepsStringified ==
    sampler # None /\ sampler.kind = "Filter" =>
        \A c \in ReturnedCalls, key \in Range(raw_data_dict.keys) :
            LET full_df == raw_data_dict.data[key]
                out_df  == sample_calls[c].value.data[key]
            IN  IF sampler.column \in Range(full_df.columns)
                THEN RowValues(out_df) =
                        SelectSeq(RowValues(full_df),
                                  LAMBDA val : ContainsATag(val[sampler.column].text,
                                                            sampler.matching_tag_list))
                ELSE out_df = full_df

\* C18, amended: FilterSampler keeps, of each table that has the column,
\* exactly the rows whose value in the column is a string that contains a
\* tag (the tag converted to a string); a value that is not a string, such
\* as the number 123, never matches; a table without the column is returned
\* unchanged.
C18_FilterKeepsStringMatches ==
    sampler # None /\ sampler.kind = "Filter" =>
        \A c \in ReturnedCalls, key \in Range(raw_data_dict.keys) :
            LET full_df == raw_data_dict.data[key]
                out_df  == sample_calls[c].value.data[key]
            IN  IF sampler.column \in Range(full_df.columns)
                THEN RowValues(out_df) =
                        SelectSeq(RowValues(full_df),
                                  LAMBDA val :
                                     /\ val[sampler.column].type = "str"
                                     /\ ContainsATag(val[sampler.column].text,
                                                     sampler.matching_tag_list))
                ELSE out_df = full_df

\* the number 123 and the string "x" filtered by the tags 12 and "x": only
\* the row of "x" is kept
C18_Witness ==
    /\ sampler = FilterSampler("k", << IntValue(<<"1", "2">>), StrValue(<<"x">>) >>)
    /\ raw_data_dict # None
    /\ raw_data_dict.data["K"] = Table("k", << <<3, I123>>, <<7, SX>> >>)
    /\ sample_calls # <<>>
    /\ sample_calls[1].value.data["K"] = Table("k", << <<0, SX>> >>)

\* C19: RandomSampler returns for each key a duplicate-free subset of the
\* rows of the input table, of size floor(percent * row count), and with a
\* seed two invocations on the same input return the same output whatever
\* use of the random generator happens in between.
C19_RandomSubsetDeterministic ==
    sampler # None /\ sampler.kind = "Random" =>
        /\ \A c \in ReturnedCalls, key \in Range(raw_data_dict.keys) :
              LET full_df == raw_data_dict.data[key]
                  out_df  == sample_calls[c].value.data[key]
              IN  /\ sampler.percent.den * NbRows(out_df)
                        <= sampler.percent.num * NbRows(full_df)
                  /\ sampler.percent.den * (NbRows(out_df) + 1)
                        > sampler.percent.num * NbRows(full_df)
                  /\ Range(RowValues(out_df)) \subseteq Range(RowValues(full_df))
                  /\ Cardinality(Range(RowValues(out_df))) = NbRows(out_df)
        /\ sampler.seed # NoSeed =>
              \A c, d \in 1..Len(sample_calls) : sample_calls[c] = sample_calls[d]

\* a seeded sampler of half the rows called twice on a table of two rows
C19_Witness ==
    /\ sampler = RandomSampler([num |-> 1, den |-> 2], 1)
    /\ Len(sample_calls) = 2
    /\ NbRows(raw_data_dict.data["K"]) = 2
    /\ NbRows(sample_calls[1].value.data["K"]) = 1
    /\ sample_calls[1] = sample_calls[2]

-----------------------------------------------------------------------------
(* The hub handles as objects: snapshot_handle *)

MaxHandleCalls == 2

\* a snapshot_handle that changes the handle it is called on and returns it
SnapshotHandleInPlace(heap, on, snapshot_root_folder) ==
    [heap     |-> [heap EXCEPT ![on] = SnapshotHandle(heap[on], snapshot_root_folder)],
     returned |-> on]

\* heap[on].snapshot_handle(snapshot_root_folder): the constructor makes a
\* new object, no attribute of heap[on] is assigned
SnapshotHandleCall(heap, on, snapshot_root_folder) ==
    [heap     |-> Append(heap, SnapshotHandle(heap[on], snapshot_root_folder)),
     returned |-> Len(heap) + 1]

HandleRoots == {<<"p">>, <<"q">>, <<"t">>, <<"p", "/", "s">>}

FirstHandles ==
    {RelativeDataHubHandle(root, relative_path) :
        root \in {<<"q">>, <<"t">>}, relative_path \in {<<"r">>, <<"r", "/", "s">>}}
    \cup {AbsoluteDataHubHandle(root) : root \in {<<"p">>, <<"t">>}}

HandleInit ==
    /\ handles \in {<<h>> : h \in FirstHandles}
    /\ handle_calls = <<>>
    /\ fs = <<>>
    /\ ProjIdle
    /\ HubIdle
    /\ ContentIdle
    /\ AccIdle
    /\ SamplerIdle
    /\ ParserIdle

\* a call of snapshot_handle on one of the handles
CallSnapshotHandle(on, snapshot_root_folder) ==
    /\ Len(handle_calls) < MaxHandleCalls
    /\ on \in 1..Len(handles)
    /\ LET call == SnapshotHandleCall(handles, on, snapshot_root_folder)
       IN  /\ handles' = call.heap
           /\ handle_calls' = Append(handle_calls,
                  [on |-> on, snapshot_root_folder |-> snapshot_root_folder,
                   before |-> handles[on], root_before |-> HubRoot(handles[on]),
                   returned |-> call.returned])
    /\ UNCHANGED notHandle

HandleNext ==
    \E on \in 1..(MaxHandleCalls + 1), snapshot_root_folder \in HandleRoots :
        CallSnapshotHandle(on, snapshot_root_folder)

SpecHandle == HandleInit /\ [][HandleNext]_vars

\* C20: snapshot_handle(new_root) never changes the handle it is called on
\* and returns a new handle of the same variant, whose root is new_root +
\* "/" + the original suffix for a Relative handle and new_root for an
\* Absolute handle; hub_root() of the original is the same before and after.
C20_SnapshotHandleFresh ==
    \A c \in 1..Len(handle_calls) :
        LET call     == handle_calls[c]
            original == handles[call.on]
            new      == handles[call.returned]
        IN  /\ original = call.before
            /\ HubRoot(original) = call.root_before
            /\ call.returned # call.on
            /\ new.variant = original.variant
            /\ IF original.variant = "relative"
               THEN HubRoot(new) = call.snapshot_root_folder \o <<"/">>
                                      \o original.relative_path
               ELSE HubRoot(new) = call.snapshot_root_folder

\* a handle snapshotted to another root, and the snapshot snapshotted again
C20_Witness ==
    /\ Len(handle_calls) = 2
    /\ handle_calls[2].on = handle_calls[1].returned
    /\ handles[1].variant = "relative"
    /\ HubRoot(handles[2]) # HubRoot(handles[1])
    /\ HubRoot(handles[3]) # HubRoot(handles[2])

-----------------------------------------------------------------------------
(* Properties of the statistics and destinations of project *)

\* the output manifest has the hub names of the input manifest, in order
SameHubNames ==
    [k \in 1..Len(input_db) |-> input_db[k].name]
        = [k \in 1..Len(output_db) |-> output_db[k].name]

\* C21: when the output manifest has the same hub names in the same order
\* as the input manifest, the Project phase records one output statistic
\* for each input statistic of the Load phase, in the same relative-url
\* order, also for a dataset that exists in more than one input hub.
C21_OneOutputStatisticPerInput ==
    (SameHubNames /\ ProjectComplete) =>
        /\ stats_output_relative_paths = stats_input_relative_paths
        /\ Len(stats_output_nb_rows) = Len(stats_input_nb_rows)
        /\ Len(stats_output_nb_columns) = Len(stats_input_nb_columns)

\* the Save loop is over
SaveFinished ==
    /\ ProjectComplete
    /\ pc \in {"returned", "raised"}
    /\ item_pos > Len(projected_keys)

\* Load stored a table for dataset j of input hub k
LoadedFrom(k, j) == ~MissingIn(k, j) /\ Fragments(k, j) # <<>>

\* the projection of what input hub k holds of dataset j
ProjectionOf(k, j) == FilterDF(Concat(Fragments(k, j)), ProjectionFilter)

\* the output hubs that have the name of input hub k
OutputHubsNamed(k) ==
    {o \in 1..Len(output_db) : output_db[o].name = input_db[k].name}

\* the pairs whose projection belongs in the output database and is to be saved
ToBeSaved ==
    {p \in HubDatasetPairs :
        /\ p[1] \in 1..Len(input_db)
        /\ LoadedFrom(p[1], p[2])
        /\ OutputHubsNamed(p[1]) # {}
        /\ ~SkipsSaving(ProjectionOf(p[1], p[2]), DatasetsInScope[p[2]].path_within_hub)}

\* persist call n writes the projection of pair p to the output hub of p's name
WritesProjection(n, p) ==
    /\ \E o \in OutputHubsNamed(p[1]) :
          persist_log[n].url = FullUrl(HubRoot(output_db[o].hub_handle),
                                       DatasetsInScope[p[2]].path_within_hub)
    /\ persist_log[n].subpath = DatasetsInScope[p[2]].subpaths[1]
    /\ persist_log[n].data_df = ProjectionOf(p[1], p[2])

\* C23: once the Save phase is over, the projection of every dataset loaded
\* from an input hub, when it is to be saved, has been written exactly once,
\* to the root of the output hub of the same name + "/" + relative url under
\* the first subpath label, and every write is such a write: none goes to
\* another hub.  This covers a relative url loaded from several input hubs.
C23_ProjectedIntoOwnHub ==
    SaveFinished =>
        /\ \A p \in ToBeSaved :
              Cardinality({n \in 1..Len(persist_log) : WritesProjection(n, p)}) = 1
        /\ \A n \in 1..Len(persist_log) :
              \E p \in ToBeSaved : WritesProjection(n, p)

(* Properties of the DataAccessor's ACTION and of its lightweight location *)

\* C24: after any sequence of calls on one DataAccessor, ACTION is the name
\* of the operation started most recently ("retrieve", "remove", "copy" or
\* "persist"), never an earlier operation's name or the initial empty value.
C24_ActionIsLatestOperation ==
    acc_result # None /\ "op" \in DOMAIN acc_result =>
        accessor.action = ActionName(acc_result.op)

\* the url with its ".xlsx" replaced by ".csv", itself when it ends with
\* ".csv", and with ".csv" appended otherwise
LightweightLocation(some_url) ==
    IF EndsWith(some_url, XLSX)
    THEN SubSeq(some_url, 1, Len(some_url) - Len(XLSX)) \o CSV
    ELSE IF EndsWith(some_url, CSV) THEN some_url
    ELSE some_url \o CSV

\* C25: the lightweight location retrieve derives from the accessor's url is
\* the url with ".xlsx" replaced by ".csv" (d.xlsx gives d.csv), the url
\* itself when it ends with ".csv", and the url + ".csv" otherwise.
C25_LightweightLocation ==
    acc_pc = "done" => UrlToCsv(accessor.url) = LightweightLocation(accessor.url)

(* Properties of the steps of populate_from_seed and create_snapshot *)

\* the operation under way replaces the content of its target by a seed's
Replacing == hub_call # None /\ hub_call.op \in {"populate", "snapshot"}

TargetRoot == HubRootOf(hub_call.target)

SeedRoot == HubRootOf(hub_call.seed_hub)

NoContent(store, root) == DOMAIN Content(store, root) = {}

\* the step brings back a file that the operation removed and that the seed
\* does not hold
RestoresRemoved ==
    \E u \in DOMAIN fs' :
        /\ IsUnder(u, HubRootOf(hub_call'.target))
        /\ u \notin DOMAIN fs \/ fs'[u] # fs[u]
        /\ LET rel  == RelativeTo(u, HubRootOf(hub_call'.target))
               seed == Content(fs, HubRootOf(hub_call'.seed_hub))
           IN  ~(rel \in DOMAIN seed /\ fs'[u] = seed[rel])

\* C26: populate_from_seed and create_snapshot are not atomic.  Between their
\* remove and their copy the target root is cleared: it holds nothing, so
\* none of the seed's content; that state stays when the copy fails; and no
\* step of the operation brings removed content back.
C26_ClearedBeforeCopy ==
    /\ [](Replacing /\ hub_pc \in {"enrich", "copy failed"} =>
             NoContent(fs, TargetRoot))
    /\ [][(Replacing /\ hub_call' = hub_call) => ~RestoresRemoved]_vars

\* a copy has failed after the remove took content away from a target whose
\* seed, elsewhere, holds content
C26_Witness ==
    /\ Replacing
    /\ hub_pc = "copy failed"
    /\ ~NoContent(fs_before, TargetRoot)
    /\ NoContent(fs, TargetRoot)
    /\ ~NoContent(fs, SeedRoot)

(* Properties of the Save phase *)

\* the Save loop is at a projected dataset that has no row and that
\* must_save_even_if_empty does not name
AtEmptyNotForced ==
    /\ pc = "save"
    /\ item_pos <= Len(projected_keys)
    /\ NbRows(projected_data_dict[projected_keys[item_pos]].data_df) = 0
    /\ ~must_save[projected_keys[item_pos]]

\* C27: the Save phase only adds or overwrites files, it removes none; the
\* pass over a projected dataset with zero rows that must_save_even_if_empty
\* does not name changes nothing, so a file already at its destination url
\* stays as it is.
C27_SaveLeavesStaleFile ==
    [][/\ pc = "save" => \A u \in DOMAIN fs : u \in DOMAIN fs'
       /\ AtEmptyNotForced => fs' = fs]_vars

\* the Save loop has passed an empty, not forced dataset whose destination
\* holds the workbook of an earlier run
C27_Witness ==
    \E relative_url \in SaveHandled :
        /\ NbRows(projected_data_dict[relative_url].data_df) = 0
        /\ ~must_save[relative_url]
        /\ DestinationUrl(relative_url) \in DOMAIN fs
        /\ fs[DestinationUrl(relative_url)] = StaleFile

(* Properties of the failures of project *)

\* retrieve returns None for every subpath of dataset j in input hub k,
\* whose url exists
NothingRetrieved(k, j) ==
    /\ ~MissingIn(k, j)
    /\ \A n \in 1..Len(DatasetsInScope[j].subpaths) :
          LET r == Retrieve(fs, InputUrl(<<k, j>>), DatasetsInScope[j].subpaths[n],
                            <<>>, FALSE)
          IN  r.status = "returned" /\ r.value = None

NoObjectsToConcatenate ==
    /\ pc = "raised"
    /\ raised.type = "ValueError"
    /\ raised.text = "No objects to concatenate"

\* C28: when the url of a dataset exists and retrieve returns None for every
\* subpath, the pass of the Load loop that reads them without a failure of
\* the operating system raises (the concatenation of an empty list) instead
\* of skipping the dataset; project returns no statistics table and nothing
\* has been persisted.
C28_EmptyLoadRaises ==
    /\ [][\A k \in 1..NumHubs, j \in 1..Len(DatasetsInScope) :
            (LoadingAt(k, j) /\ NothingRetrieved(k, j)
                /\ ~(pc' = "raised" /\ raised'.type = "PermissionError")) =>
                /\ NoObjectsToConcatenate'
                /\ DatasetsInScope[j].path_within_hub \notin skipped_by_hub'
                /\ nb_loaded' = nb_loaded]_vars
    /\ [](NoObjectsToConcatenate => stats_df = None /\ persist_log = <<>>)

\* the Load phase has raised on such a dataset after it loaded another one
C28_Witness ==
    /\ NoObjectsToConcatenate
    /\ nb_loaded >= 1
    /\ \E k \in 1..NumHubs, j \in 1..Len(DatasetsInScope) :
          /\ raised.url = InputUrl(<<k, j>>)
          /\ NothingRetrieved(k, j)

MisalignedAbort == pc = "raised" /\ raised.type = "AssertionError"

\* C29: the alignment assertion is evaluated after the Save loop: when a run
\* aborts because the statistics are misaligned, every projected dataset
\* that has a row, or that must_save_even_if_empty names, has been persisted
\* and is in storage.
C29_SavedBeforeAssertion ==
    MisalignedAbort =>
        \A relative_url \in Range(projected_keys) :
            (NbRows(projected_data_dict[relative_url].data_df) > 0
                \/ must_save[relative_url]) => IsPersisted(relative_url)

C29_Witness ==
    /\ MisalignedAbort
    /\ persist_log # <<>>
    /\ \E relative_url \in Range(projected_keys) : IsPersisted(relative_url)

\* project and the hub operations, each on its own: the operations of a hub
\* run in a store in which no project runs
PermissionInit == ProjInit \/ HubInit

PermissionNext ==
    \/ ProjNext
    \/ pc = "idle" /\ HubNext

SpecPermission == PermissionInit /\ [][PermissionNext]_vars

\* the error comes from a permission failure, as it was raised or translated
FromPermissionFailure(error) ==
    /\ error # None
    /\ error.text \in {Failure("PermissionError", <<>>).text, "Please close file(s)"}

MaxCommandLen == 5

SPACE == " "

SUBSTRING_DELIMETERS == {"'", "\""}

CommandAlphabet == {"a", SPACE} \cup SUBSTRING_DELIMETERS

Commands == UNION {[1..n -> CommandAlphabet] : n \in 0..MaxCommandLen}

\* str.split(SPACE): the pieces between the spaces, empty pieces included
RECURSIVE SplitFrom(_, _, _, _)
SplitFrom(str, i, piece, pieces) ==
    IF i > Len(str) THEN Append(pieces, piece)
    ELSE IF str[i] = SPACE THEN SplitFrom(str, i + 1, <<>>, Append(pieces, piece))
    ELSE SplitFrom(str, i + 1, Append(piece, str[i]), pieces)

Split(str) == SplitFrom(str, 1, <<>>, <<>>)

\* len(next_token.strip()) == 0 : a piece of a split on spaces holds no space
IsBlank(token) == Len(token) = 0

_UsualState == [kind |-> "usual", substring |-> <<>>, delimeter |-> ""]

_SubstringState(initial_token) ==
    [kind |-> "substring", substring |-> initial_token, delimeter |-> initial_token[1]]

_StateMachine(token_list) ==
    [token_list |-> token_list, token_idx |-> 0, state |-> _UsualState,
     args |-> <<>>, returned |-> FALSE]

at_substring_start(next_token) == next_token[1] \in SUBSTRING_DELIMETERS

at_substring_end(state, next_token) == next_token[Len(next_token)] = state.delimeter

\* the condition of the loop of run
Running ==
    /\ machine # None
    /\ ~machine.returned
    /\ machine.token_idx < Len(machine.token_list)

ParserInit ==
    /\ command \in Commands
    /\ machine = _StateMachine(Split(command))
    /\ fs = <<>>
    /\ ProjIdle
    /\ HubIdle
    /\ ContentIdle
    /\ AccIdle
    /\ SamplerIdle
    /\ HandleIdle

\* one turn of the loop of run in the usual state
UsualAdvance ==
    /\ Running
    /\ machine.state.kind = "usual"
    /\ LET next_token == machine.token_list[machine.token_idx + 1]
           M == [machine EXCEPT !.token_idx = @ + 1]
       IN  machine' =
               IF IsBlank(next_token) THEN M
               ELSE IF at_substring_start(next_token)
                    THEN [M EXCEPT !.state = _SubstringState(next_token)]
               ELSE [M EXCEPT !.args = Append(@, next_token)]
    /\ UNCHANGED <<command, notParser>>

\* one turn of the loop of run inside a substring
SubstringAdvance ==
    /\ Running
    /\ machine.state.kind = "substring"
    /\ LET next_token == machine.token_list[machine.token_idx + 1]
           M == [machine EXCEPT !.token_idx = @ + 1]
           substring == machine.state.substring \o <<SPACE>> \o next_token
       IN  machine' =
               IF IsBlank(next_token) THEN M
               ELSE IF at_substring_end(machine.state, next_token)
                    THEN [M EXCEPT !.args = Append(@, substring), !.state = _UsualState]
               ELSE [M EXCEPT !.state.substring = substring]
    /\ UNCHANGED <<command, notParser>>

\* run is over and get_argument_list returns machine.args
ReturnArgs ==
    /\ machine # None
    /\ ~machine.returned
    /\ machine.token_idx >= Len(machine.token_list)
    /\ machine' = [machine EXCEPT !.returned = TRUE]
    /\ UNCHANGED <<command, notParser>>

ParserNext ==
    \/ UsualAdvance
    \/ SubstringAdvance
    \/ ReturnArgs

SpecParser == ParserInit /\ [][ParserNext]_vars

(* Properties of get_argument_list *)
NonBlank(tokens) == SelectSeq(tokens, LAMBDA t : ~IsBlank(t))

\* the non-blank tokens that make up a list of arguments, in order
RECURSIVE WordsOf(_)
WordsOf(arguments) ==
    IF arguments = <<>> THEN <<>>
    ELSE NonBlank(Split(Head(arguments))) \o WordsOf(Tail(arguments))

IsQuoted(token) ==
    /\ Len(token) >= 2
    /\ token[1] \in SUBSTRING_DELIMETERS
    /\ token[Len(token)] = token[1]

\* the arguments of a list of tokens: a token outside quotes on its own, a
\* quoted argument from its opening token to the first token that ends with
\* the same delimiter (the opening token itself for a single word)
RECURSIVE ArgumentsFrom(_, _, _, _)
ArgumentsFrom(tokens, i, open, arguments) ==
    IF i > Len(tokens) THEN [closed |-> open = <<>>, args |-> arguments]
    ELSE LET t == tokens[i]
         IN  IF IsBlank(t) THEN ArgumentsFrom(tokens, i + 1, open, arguments)
             ELSE IF open = <<>>
                  THEN IF IsQuoted(t) \/ t[1] \notin SUBSTRING_DELIMETERS
                       THEN ArgumentsFrom(tokens, i + 1, <<>>, Append(arguments, t))
                       ELSE ArgumentsFrom(tokens, i + 1, t, arguments)
             ELSE IF t[Len(t)] = open[1]
                  THEN ArgumentsFrom(tokens, i + 1, <<>>,
                                     Append(arguments, open \o <<SPACE>> \o t))
             ELSE ArgumentsFrom(tokens, i + 1, open \o <<SPACE>> \o t, arguments)

QuotedArguments(str) == ArgumentsFrom(Split(str), 1, <<>>, <<>>)

ParserReturned == machine # None /\ machine.returned

\* C22: get_argument_list terminates for every command (every turn of the
\* loop consumes one token and the index never passes the end of the token
\* list); the list it returns loses no non-blank token of the command, and
\* when every quote of the command is closed it holds each token outside
\* quotes as one argument and each quoted argument, of one word or of
\* several, as one argument with its quotes.
C22_ArgumentList ==
    /\ [](machine # None => machine.token_idx <= Len(machine.token_list))
    /\ [][Running => machine'.token_idx = machine.token_idx + 1]_parserVars
    /\ [](ParserReturned =>
            /\ WordsOf(machine.args) = NonBlank(Split(command))
            /\ QuotedArguments(command).closed =>
                   machine.args = QuotedArguments(command).args)
====
